---- MODULE Spec2Model ----
(***************************************************************************)
(* Model of the dynamic API execution engine of DBAPI_Service: the         *)
(* wildcard execution route (routes/execute.ts), the two middlewares in    *)
(* front of it, the parameter validator and the access/usage telemetry     *)
(* written to the metadata store.                                          *)
(*                                                                         *)
(* Strings that the code inspects are modelled structurally:               *)
(*  - a path is the sequence of its '/'-separated pieces after the leading *)
(*    slash, so "/users/42" is <<"users","42">> and "/users/" is           *)
(*    <<"users","">>; string equality of paths is sequence equality;       *)
(*  - an SQL text is a sequence of tokens, [t |-> "text"] for literal SQL, *)
(*    [t |-> "ph"] for a {{name}} placeholder;                             *)
(*  - a parameter bag (a JS object) is a sequence of [k, v] entries in     *)
(*    insertion order with distinct keys.                                  *)
(***************************************************************************)
EXTENDS Integers, Sequences, FiniteSets, Bags, TLC

\* ------------------------------------------------------------------ bounds

\* Number of requests the model lets into the server.
MaxRequests == 2

\* Number of rows of the endpoint tables the route matcher is run over.
MaxRows == 3

\* Number of requests the model sends to the datasource routes.
MaxOps == 2

\* Number of entries of the parameter bags SQL rendering is run over.
MaxBag == 3

\* ------------------------------------------------------------- sequences

Range(s) == {s[i] : i \in 1..Len(s)}

\* Array.prototype.filter(Boolean) on an array of strings: drops "".
FilterBoolean(segs) == SelectSeq(segs, LAMBDA s : s # "")

\* ----------------------------------------------------------- path pieces

\* seg.startsWith(':') over the pieces the model uses.
StartsWithColon(seg) == seg \in {":id", ":name"}

\* seg.substring(1) for a piece that starts with ':'.
Substring1(seg) ==
  CASE seg = ":id" -> "id"
    [] seg = ":name" -> "name"
    [] OTHER -> seg

\* ------------------------------------------------------------ parameter bags

EmptyObj == <<>>

ObjKeys(bag) == {bag[i].k : i \in 1..Len(bag)}

ObjHas(bag, key) == key \in ObjKeys(bag)

ObjGet(bag, key) == bag[CHOOSE i \in 1..Len(bag) : bag[i].k = key].v

\* obj[key] = value: an existing key keeps its position, a new key is appended.
ObjSet(bag, key, value) ==
  IF ObjHas(bag, key)
    THEN [i \in 1..Len(bag) |-> IF bag[i].k = key THEN [k |-> key, v |-> value] ELSE bag[i]]
    ELSE Append(bag, [k |-> key, v |-> value])

\* Object.assign(target, source) and the spread { ...target, ...source }.
RECURSIVE ObjectAssign(_, _)
ObjectAssign(target, source) ==
  IF source = <<>> THEN target
  ELSE ObjectAssign(ObjSet(target, Head(source).k, Head(source).v), Tail(source))

\* ------------------------------------------------------------------ SQL text

Text(v) == [t |-> "text", v |-> v]

\* The placeholder {{name}}.
Ph(name) == [t |-> "ph", v |-> name]

\* A bound-parameter placeholder ('?') written by rendering.
BindMark == [t |-> "bind", v |-> "?"]

\* A value written into the SQL text as a raw literal by rendering.
Raw(v) == [t |-> "raw", v |-> v]

\* sql.includes(`{{${key}}}`)
SqlIncludes(sql, key) == \E i \in 1..Len(sql) : sql[i] = Ph(key)

\* sql.replace(placeholder, replacement) without the 'g' flag: the first occurrence.
ReplaceFirst(sql, key, replacement) ==
  [i \in 1..Len(sql) |->
     IF sql[i] = Ph(key) /\ \A j \in 1..(i - 1) : sql[j] # Ph(key) THEN replacement ELSE sql[i]]

\* sql.replace(new RegExp(placeholder, 'g'), replacement): every occurrence.
ReplaceAll(sql, key, replacement) ==
  [i \in 1..Len(sql) |-> IF sql[i] = Ph(key) THEN replacement ELSE sql[i]]

SqlAll == <<Text("SELECT"), Text(" * FROM users")>>

SqlById == <<Text("SELECT"), Text(" * FROM users WHERE id = "), Ph("id")>>

SqlByName == <<Text("SELECT"), Text(" * FROM users WHERE name = "), Ph("name")>>

SqlInsert == <<Text("INSERT INTO users (name) VALUES ("), Ph("name"), Text(")")>>

\* ------------------------------------------------------------ metadata store

Methods == {"GET", "POST"}

Statuses == {"draft", "published", "deprecated"}

Dialects == {"mysql", "postgresql", "mssql", "oracle"}

\* The row of table apis that stands for "no row".
NoApi ==
  [id |-> 0, path |-> <<>>, method |-> "GET", status |-> "draft", require_auth |-> 0,
   datasource_id |-> 0, sql_template |-> <<>>, ds_status |-> "null", type |-> "null"]

Api(id, path, method, status, auth, ds, sql) ==
  [id |-> id, path |-> path, method |-> method, status |-> status, require_auth |-> auth,
   datasource_id |-> ds, sql_template |-> sql]

\* The endpoint table the server runs with, in rowid order.  UNIQUE (path, method)
\* holds; endpoint 4 points at a datasource row that was deleted (foreign keys are
\* not enforced by the store, so the endpoint row stays).
InitialApis ==
  << Api(1, <<"users">>, "GET", "published", 1, 1, SqlAll),
     Api(2, <<"users", ":id">>, "GET", "published", 0, 1, SqlById),
     Api(3, <<"users", "42">>, "GET", "draft", 0, 1, SqlAll),
     Api(4, <<"users", ":name">>, "POST", "published", 0, 3, SqlInsert),
     Api(5, <<"users", "me">>, "GET", "published", 1, 2, SqlAll),
     Api(6, <<"users">>, "POST", "published", 0, 1, SqlInsert) >>

InitialDatasources ==
  [d \in {1, 2} |-> IF d = 1 THEN [status |-> "active", type |-> "mysql", config |-> 1]
                            ELSE [status |-> "inactive", type |-> "postgresql", config |-> 1]]

Param(name, ptype, dtype, required) ==
  [param_name |-> name, param_type |-> ptype, data_type |-> dtype, required |-> required]

\* Rows of api_parameters per endpoint id (ORDER BY id).
InitialParameters ==
  [a \in 1..6 |->
     CASE a = 2 -> <<Param("id", "path", "number", 1)>>
       [] a = 4 -> <<Param("name", "path", "string", 1)>>
       [] a = 6 -> <<Param("name", "body", "string", 1), Param("email", "body", "string", 1)>>
       [] OTHER -> <<>>]

\* ------------------------------------------------------------ route matching

\* The rows of: SELECT a.*, d.status AS ds_status, d.type FROM apis a LEFT JOIN
\* datasources d ON a.datasource_id = d.id WHERE a.method = ? AND a.status = 'published',
\* in the order the table holds them.
JoinDatasource(api, dss) ==
  [id |-> api.id, path |-> api.path, method |-> api.method, status |-> api.status,
   require_auth |-> api.require_auth, datasource_id |-> api.datasource_id,
   sql_template |-> api.sql_template,
   ds_status |-> IF api.datasource_id \in DOMAIN dss THEN dss[api.datasource_id].status ELSE "null",
   type |-> IF api.datasource_id \in DOMAIN dss THEN dss[api.datasource_id].type ELSE "null"]

QueryPublished(table, dss, method) ==
  LET hit == SelectSeq(table, LAMBDA a : a.method = method /\ a.status = "published")
  IN [i \in 1..Len(hit) |-> JoinDatasource(hit[i], dss)]

\* apiPathSegments.some(seg => seg.startsWith(':'))
HasParams(api) ==
  LET segs == FilterBoolean(api.path) IN \E i \in 1..Len(segs) : StartsWithColon(segs[i])

SameLength(api, requestPathSegments) ==
  Len(FilterBoolean(api.path)) = Len(requestPathSegments)

\* The candidates without the partition: every same-length row in row order.
AllAPIsInRowOrder(rows, requestPathSegments) ==
  SelectSeq(rows, LAMBDA a : SameLength(a, requestPathSegments))

\* The partition of lines 58-77: fixed-path candidates first, then parameterized
\* ones, each group in row order.
AllAPIs(rows, requestPathSegments) ==
  SelectSeq(rows, LAMBDA a : SameLength(a, requestPathSegments) /\ ~HasParams(a))
    \o SelectSeq(rows, LAMBDA a : SameLength(a, requestPathSegments) /\ HasParams(a))

\* The inner loop of lines 86-97: no fixed piece differs from the request's piece.
SegmentsMatch(apiSegs, reqSegs) ==
  \A i \in 1..Len(apiSegs) : StartsWithColon(apiSegs[i]) \/ apiSegs[i] = reqSegs[i]

\* pathParams as the loop leaves it on a match: one entry per ':name' piece, in
\* order, a repeated name keeping its first position and its last value.
RECURSIVE BindSegments(_, _, _, _)
BindSegments(apiSegs, reqSegs, i, acc) ==
  IF i > Len(apiSegs) THEN acc
  ELSE BindSegments(apiSegs, reqSegs, i + 1,
         IF StartsWithColon(apiSegs[i])
           THEN ObjSet(acc, Substring1(apiSegs[i]), reqSegs[i])
           ELSE acc)

NoMatch == [api |-> NoApi, pathParams |-> EmptyObj, found |-> FALSE]

\* The loop without its early return: the last candidate that fits wins.
LastFit(candidates, reqSegs) ==
  LET fits == SelectSeq(candidates, LAMBDA a : SegmentsMatch(FilterBoolean(a.path), reqSegs))
  IN IF fits = <<>> THEN NoMatch
     ELSE LET api == fits[Len(fits)]
          IN [api |-> api, pathParams |-> BindSegments(FilterBoolean(api.path), reqSegs, 1, EmptyObj),
              found |-> TRUE]

RECURSIVE FirstFit(_, _)
FirstFit(candidates, reqSegs) ==
  IF candidates = <<>> THEN NoMatch
  ELSE LET api == Head(candidates)
           apiSegs == FilterBoolean(api.path)
       IN IF SegmentsMatch(apiSegs, reqSegs)
            THEN [api |-> api, pathParams |-> BindSegments(apiSegs, reqSegs, 1, EmptyObj),
                  found |-> TRUE]
            ELSE FirstFit(Tail(candidates), reqSegs)

\* findMatchingAPI(path, method) over the rows the store returns.
FindMatchingAPI(table, dss, path, method) ==
  LET requestPathSegments == FilterBoolean(path)
  IN FirstFit(AllAPIs(QueryPublished(table, dss, method), requestPathSegments),
              requestPathSegments)

\* ---------------------------------------------------------------- validation

\* Values a request can carry.  " 7" is "7" with a leading blank.
IsNumeric(v) == v \in {"42", "7", " 7"}

\* String.prototype.trim()
Trim(v) == IF v = " 7" THEN "7" ELSE v

\* sanitizeInput over every entry of the bag.
SanitizeAll(bag) == [i \in 1..Len(bag) |-> [k |-> bag[i].k, v |-> Trim(bag[i].v)]]

\* The Joi rule built for one parameter, applied to the bag: the set of error keys
\* it contributes (abortEarly: false collects them all).
ParamErrors(param, bag) ==
  IF ~ObjHas(bag, param.param_name)
    THEN IF param.required = 1 THEN {param.param_name} ELSE {}
    ELSE LET v == ObjGet(bag, param.param_name)
         IN IF param.data_type = "number" /\ ~IsNumeric(v) THEN {param.param_name}
            ELSE IF param.data_type \notin {"number", "boolean", "date"} /\ v = ""
              THEN {param.param_name}
              ELSE {}

\* Validation with abortEarly: true: only the first failing parameter is reported.
ValidateRequestAbortEarly(parameters, bag) ==
  LET failing == SelectSeq(parameters, LAMBDA param : ParamErrors(param, bag) # {})
  IN IF failing = <<>> THEN [valid |-> TRUE, errors |-> {}]
     ELSE [valid |-> FALSE, errors |-> ParamErrors(failing[1], bag)]

\* validateRequest: no stored parameters means valid; unknown keys are no error.
ValidateRequest(parameters, bag) ==
  IF Len(parameters) = 0 THEN [valid |-> TRUE, errors |-> {}]
  ELSE LET errs == UNION {ParamErrors(parameters[i], bag) : i \in 1..Len(parameters)}
       IN [valid |-> errs = {}, errors |-> errs]

\* validateAndSanitizeRequest: the sanitized bag is the trimmed request bag, not
\* the value Joi returns.
ValidateAndSanitizeRequest(parameters, bag) ==
  LET sanitizedParams == SanitizeAll(bag)
      res == ValidateRequest(parameters, sanitizedParams)
  IN [valid |-> res.valid, errors |-> res.errors,
      sanitizedParams |-> IF res.valid THEN sanitizedParams ELSE EmptyObj]

\* ----------------------------------------------------------------- rendering

DirectReplaceParams == {"order_by", "order", "limit"}

SearchParam == "search"

\* String(value).replace(/'/g, "''")
EscapeQuotes(v) == IF v = "o'k" THEN "o''k" ELSE v

\* The literal '%value%' written for the search parameter.
Like(v) == [t |-> "like", v |-> EscapeQuotes(v)]

\* The loop of lines 264-279 over Object.entries(sanitizedParams), from entry i.
RECURSIVE RenderFrom(_, _, _, _)
RenderFrom(bag, i, sql, queryParams) ==
  IF i > Len(bag) THEN [sql |-> sql, queryParams |-> queryParams]
  ELSE LET key == bag[i].k
           value == bag[i].v
       IN IF ~SqlIncludes(sql, key) THEN RenderFrom(bag, i + 1, sql, queryParams)
          ELSE IF key = SearchParam
            THEN RenderFrom(bag, i + 1, ReplaceAll(sql, key, Like(value)), queryParams)
          ELSE IF key \in DirectReplaceParams
            THEN RenderFrom(bag, i + 1, ReplaceAll(sql, key, Raw(value)), queryParams)
          ELSE RenderFrom(bag, i + 1, ReplaceAll(sql, key, BindMark), Append(queryParams, value))

RenderSql(sql_template, sanitizedParams) == RenderFrom(sanitizedParams, 1, sql_template, <<>>)

\* A token of white space only.
IsBlank(tok) == tok.t = "text" /\ tok.v \in {" ", "\n"}

\* String.prototype.trim(): white space at both ends is dropped.
RECURSIVE TrimSql(_)
TrimSql(sql) ==
  IF sql = <<>> THEN sql
  ELSE IF IsBlank(Head(sql)) THEN TrimSql(Tail(sql))
  ELSE IF IsBlank(sql[Len(sql)]) THEN TrimSql(SubSeq(sql, 1, Len(sql) - 1))
  ELSE sql

\* String.prototype.toUpperCase() on the words the row cap looks for.
ToUpperCase(sql) ==
  [i \in 1..Len(sql) |->
     IF sql[i].t # "text" THEN sql[i]
     ELSE CASE sql[i].v = "select" -> Text("SELECT")
            [] sql[i].v = " limit " -> Text(" LIMIT ")
            [] OTHER -> sql[i]]

\* trimmedSql = sql.trim().toUpperCase()
TrimmedSql(sql) == ToUpperCase(TrimSql(sql))

\* trimmedSql.startsWith('SELECT')
IsSelect(trimmedSql) == Len(trimmedSql) > 0 /\ trimmedSql[1] = Text("SELECT")

\* trimmedSql.includes(word) for a row-limit keyword.
HasText(trimmedSql, word) == \E i \in 1..Len(trimmedSql) : trimmedSql[i] = Text(word)

\* trimmedSql.endsWith(' LIMIT')
EndsWithLimit(trimmedSql) == Len(trimmedSql) > 0 /\ trimmedSql[Len(trimmedSql)] = Text(" LIMIT")

\* sql.lastIndexOf(';') as a token position, 0 when there is none.
LastSemicolon(sql) ==
  IF \E i \in 1..Len(sql) : sql[i] = Text(";")
    THEN CHOOSE i \in 1..Len(sql) :
           sql[i] = Text(";") /\ \A j \in (i + 1)..Len(sql) : sql[j] # Text(";")
    ELSE 0

InsertBeforeLastSemicolon(sql, clause) ==
  LET at == LastSemicolon(sql)
  IN IF at # 0
       THEN SubSeq(sql, 1, at - 1) \o <<Text(clause)>> \o SubSeq(sql, at, Len(sql))
       ELSE Append(sql, Text(clause))

\* sql.replace(/^SELECT\s+/i, 'SELECT TOP 1000 ') on the text as it is, untrimmed:
\* the white space after SELECT is consumed and written back.
ReplaceLeadingSelect(sql) ==
  IF Len(sql) > 0 /\ sql[1] \in {Text("SELECT"), Text("select")}
    THEN <<Text("SELECT TOP 1000")>> \o Tail(sql)
    ELSE sql

\* The row cap of lines 281-307.
ApplyRowCap(sql, type) ==
  LET trimmedSql == TrimmedSql(sql)
  IN IF ~IsSelect(trimmedSql) THEN sql
     ELSE IF type \in {"mysql", "postgresql"}
       THEN IF ~HasText(trimmedSql, " LIMIT ") /\ ~EndsWithLimit(trimmedSql)
              THEN InsertBeforeLastSemicolon(sql, " LIMIT 1000") ELSE sql
     ELSE IF type = "mssql"
       THEN IF ~HasText(trimmedSql, " TOP ") THEN ReplaceLeadingSelect(sql) ELSE sql
     ELSE IF type = "oracle"
       THEN IF ~HasText(trimmedSql, " ROWNUM ") /\ ~HasText(trimmedSql, " FETCH FIRST ")
              THEN InsertBeforeLastSemicolon(sql, " FETCH FIRST 1000 ROWS ONLY") ELSE sql
     ELSE sql

\* ------------------------------------------------------------- pool registry

\* A Map from pool names to pools; the empty Map is <<>>.
MapOver(names, value(_)) == IF names = {} THEN <<>> ELSE [k \in names |-> value(k)]

\* Map.prototype.set, delete and has.
MapSet(map, key, value) ==
  MapOver(DOMAIN map \cup {key}, LAMBDA k : IF k = key THEN value ELSE map[k])

MapDelete(map, key) == MapOver(DOMAIN map \ {key}, LAMBDA k : map[k])

MapHas(map, key) == key \in DOMAIN map

\* mysqlPools, pgPools, mssqlPools, oraclePools: one Map per dialect.
NoPools == [type \in Dialects |-> <<>>]

\* `ds_${id}`; an id that is undefined gives 'ds_undefined'.
PoolName(id) ==
  CASE id = 1 -> "ds_1"
    [] id = 2 -> "ds_2"
    [] id = 3 -> "ds_3"
    [] OTHER -> "ds_undefined"

\* The pool built from the row of a datasource: what it connects to.
Pool(id, row) == [ds |-> id, type |-> row.type, config |-> row.config]

\* startServer: one pool per datasource whose status is 'active'.
StartServer(dss) ==
  [type \in Dialects |->
     LET ids == {id \in DOMAIN dss : dss[id].status = "active" /\ dss[id].type = type}
     IN MapOver({PoolName(id) : id \in ids},
                LAMBDA name : LET id == CHOOSE i \in ids : PoolName(i) = name
                              IN Pool(id, dss[id]))]

\* The dialects whose createXPool awaits the driver between the test for the
\* name and the registration.
AwaitsDriver(type) == type \in {"mssql", "oracle"}

\* createPool up to its first await: throws when the Map of the config's dialect
\* has the name; registers at once for mysql and postgresql.
CreatePool(registry_, config, poolName) ==
  IF MapHas(registry_[config.type], poolName)
    THEN [threw |-> TRUE, connecting |-> FALSE, pools |-> registry_]
  ELSE IF AwaitsDriver(config.type)
    THEN [threw |-> FALSE, connecting |-> TRUE, pools |-> registry_]
  ELSE [threw |-> FALSE, connecting |-> FALSE,
        pools |-> [registry_ EXCEPT ![config.type] = MapSet(@, poolName, config)]]

\* this.mssqlPools.set(poolName, pool) after the driver has connected.
RegisterPool(registry_, config, poolName) ==
  [registry_ EXCEPT ![config.type] = MapSet(@, poolName, config)]

\* closePool(poolName, type): the Map of that dialect only.
ClosePool(registry_, poolName, type) ==
  IF MapHas(registry_[type], poolName)
    THEN [registry_ EXCEPT ![type] = MapDelete(@, poolName)]
    ELSE registry_

\* ------------------------------------------------------------ authentication

NoPermissions == [type |-> "null", apis |-> {}]

\* Table users: the rows that carry an API token.
Users ==
  [t \in {"api_scoped", "api_unscoped", "api_expired"} |->
     CASE t = "api_scoped" ->
            [id |-> 7, expired |-> FALSE,
             token_permissions |-> [type |-> "categories", apis |-> {1, 2, 4, 5}]]
       [] t = "api_unscoped" ->
            [id |-> 8, expired |-> FALSE,
             token_permissions |-> [type |-> "categories", apis |-> {6}]]
       [] t = "api_expired" ->
            [id |-> 9, expired |-> TRUE,
             token_permissions |-> [type |-> "categories", apis |-> {1, 2, 4, 5}]]]

\* What a request can present in its Authorization header.
Tokens == {"none", "api_unknown", "api_expired", "api_scoped", "api_unscoped", "jwt_invalid"}

Anonymous == [userId |-> 0, tokenPermissions |-> NoPermissions]

\* optionalApiTokenAuth: the principal it leaves on the request (userId 0: none).
OptionalApiTokenAuthResult(token) ==
  IF token = "none" THEN Anonymous
  ELSE IF token \in {"api_unknown", "api_expired", "api_scoped", "api_unscoped"}
    THEN IF token \notin DOMAIN Users THEN Anonymous
         ELSE IF Users[token].expired THEN Anonymous
         ELSE [userId |-> Users[token].id, tokenPermissions |-> Users[token].token_permissions]
  ELSE Anonymous

\* checkApiPermission(tokenPermissions, api)
CheckApiPermission(tokenPermissions, api) ==
  IF tokenPermissions.type # "categories" THEN FALSE
  ELSE IF tokenPermissions.apis = {} THEN FALSE
  ELSE api.id \in tokenPermissions.apis

\* ------------------------------------------------------------ usage aggregate

RECURSIVE Gcd(_, _)
Gcd(a, b) == IF b = 0 THEN a ELSE Gcd(b, a % b)

\* The REAL avg_response_time as an exact fraction in lowest terms.
Rat(n, d) == LET g == Gcd(n, d) IN IF g = 0 THEN [n |-> 0, d |-> 1] ELSE [n |-> n \div g, d |-> d \div g]

\* INSERT ... ON CONFLICT(api_id, date) DO UPDATE of the failure paths: one
\* statement, so the row is read and written in one step.
UpsertFailure(stats, api_id, today) ==
  LET key == <<api_id, today>>
  IN IF key \in DOMAIN stats
       THEN [stats EXCEPT ![key] = [@ EXCEPT !.call_count = @ + 1, !.failure_count = @ + 1]]
       ELSE stats @@ (key :> [call_count |-> 1, success_count |-> 0, failure_count |-> 1,
                              avg_response_time |-> Rat(0, 1)])

\* The upsert of the success path.  The right-hand sides of DO UPDATE SET read
\* the row as it was before the statement, so call_count there is the old count.
UpsertSuccess(stats, api_id, today, executionTime) ==
  LET key == <<api_id, today>>
  IN IF key \in DOMAIN stats
       THEN LET old == stats[key]
                avg == old.avg_response_time
            IN [stats EXCEPT ![key] =
                  [call_count |-> old.call_count + 1,
                   success_count |-> old.success_count + 1,
                   failure_count |-> old.failure_count,
                   avg_response_time |->
                     Rat(avg.n * (old.call_count - 1) + executionTime * avg.d,
                         avg.d * old.call_count)]]
       ELSE stats @@ (key :> [call_count |-> 1, success_count |-> 1, failure_count |-> 0,
                              avg_response_time |-> Rat(executionTime, 1)])

\* ------------------------------------------------------- the execution route

\* The datasource gate written as a test for the value 'inactive' only.
GateOutcomeInactiveOnly(api, userId, tokenPermissions) ==
  IF api.ds_status = "inactive" THEN 503
  ELSE IF api.require_auth = 1 /\ userId = 0 THEN 401
  ELSE IF api.require_auth = 1 /\ ~CheckApiPermission(tokenPermissions, api) THEN 403
  ELSE 0

\* The gates of lines 129-220 in the order the handler evaluates them: the status
\* it answers with, 0 when every gate passes.
GateOutcome(api, userId, tokenPermissions) ==
  IF api.ds_status # "active" THEN 503
  ELSE IF api.require_auth = 1 /\ userId = 0 THEN 401
  ELSE IF api.require_auth = 1 /\ ~CheckApiPermission(tokenPermissions, api) THEN 403
  ELSE 0

\* The values of an api_access_logs row, of its columns api_id, response_status,
\* execution_time and status (the other columns are not modelled).
FailureLog(api_id, response_status) ==
  [api_id |-> api_id, response_status |-> response_status, execution_time |-> 0,
   status |-> "failure"]

SuccessLog(api_id, executionTime) ==
  [api_id |-> api_id, response_status |-> 200, execution_time |-> executionTime,
   status |-> "success"]

\* SELECT id FROM apis WHERE path = ? AND method = ? of the catch block: the
\* request path as a string against the stored path, any lifecycle status.
CatchLookup(table, path, method) ==
  SelectSeq(table, LAMBDA a : a.path = path /\ a.method = method)

\* ------------------------------------------------------------------- requests

\* req.params.path of the wildcard route '/:path(*)' as a string, for the bag.
PathString(path) ==
  CASE path = <<"users">> -> "users"
    [] path = <<"users", "42">> -> "users/42"
    [] path = <<"users", "7">> -> "users/7"
    [] path = <<"users", "me">> -> "users/me"
    [] path = <<"orders">> -> "orders"
    [] OTHER -> "?"

Shape(path, method, query, body) ==
  [path |-> path, method |-> method, query |-> query, body |-> body]

Entry(k, v) == [k |-> k, v |-> v]

\* The requests the model sends: path, verb, query string and JSON body.
RequestShapes ==
  { Shape(<<"users">>, "GET", EmptyObj, EmptyObj),
    Shape(<<"users", "7">>, "GET", EmptyObj, EmptyObj),
    Shape(<<"users", "42">>, "GET", <<Entry("id", " 7")>>, EmptyObj),
    Shape(<<"users", "me">>, "GET", EmptyObj, EmptyObj),
    Shape(<<"orders">>, "GET", EmptyObj, EmptyObj),
    Shape(<<"users">>, "POST", EmptyObj, EmptyObj),
    Shape(<<"users", "me">>, "POST", EmptyObj, EmptyObj) }

\* Date.now() - startTime of a successful execution, in milliseconds.
Durations == {10, 20}

\* The calendar days of a run: it spans at most one midnight.
Days == {0, 1}

NoLog == [api_id |-> 0, response_status |-> 0, execution_time |-> 0, status |-> "none"]

\* A request before the server has seen it.  logs, upserts and dispatches count
\* what the request has written so far: its rows in api_access_logs, its
\* statements on api_call_stats and its calls to the pool registry.  today is the
\* date part of `now`, read when the log row is written and kept for the upsert.
NewRequest ==
  [pc |-> "new", userId |-> 0, tokenPermissions |-> NoPermissions,
   path |-> <<>>, method |-> "GET", query |-> EmptyObj, body |-> EmptyObj,
   params |-> EmptyObj, api |-> NoApi, allParams |-> EmptyObj, sanitizedParams |-> EmptyObj,
   sql |-> <<>>, queryParams |-> <<>>, pending |-> NoLog, today |-> 0,
   response |-> 0, errors |-> {}, logs |-> 0, upserts |-> 0, dispatches |-> 0]

\* ------------------------------------------------------------- public paths

\* SELECT path FROM apis WHERE status = 'published'.
PublishedPaths(rows) ==
  {rows[i].path : i \in {j \in DOMAIN rows : rows[j].status = "published"}}

\* loadPublicPaths: every path of the result is added to the Set; nothing is ever
\* taken out of it.
LoadedPaths(set, rows) == set \cup PublishedPaths(rows)

\* initPublicPaths, called once by startServer on the empty Set.
InitPublicPaths(rows) == LoadedPaths({}, rows)


VARIABLES
  apis,             \* table apis, rows in rowid order
  datasources,      \* table datasources: id -> row
  api_parameters,   \* table api_parameters: endpoint id -> rows in id order
  api_access_logs,  \* table api_access_logs: a bag of rows
  api_call_stats,   \* table api_call_stats: <<api_id, date>> -> row
  executed,         \* the calls made to databasePool.executeQuery: a bag
  clock,            \* the calendar day getBeijingTime() reports
  reqs,             \* the requests, a bag: their position in the handlers, their fields
  pools,            \* the pool registry: dialect -> pool name -> pool
  ops,              \* the requests to the datasource and endpoint routes, a bag
  sqlite_sequence,  \* the AUTOINCREMENT counter of table datasources
  publicPaths,      \* the Set publicPaths of the execute routes
  probe             \* the route matcher applied on its own: its input and result

vars ==
  <<apis, datasources, api_parameters, api_access_logs, api_call_stats, executed, clock,
    reqs, pools, ops, sqlite_sequence, publicPaths, probe>>

\* The state of the datasource routes.
registry == <<pools, ops, sqlite_sequence>>

tables == <<apis, datasources, api_parameters>>

NoProbe == [pc |-> "idle", path |-> <<>>, method |-> "GET", result |-> NoMatch]

One(x) == SetToBag({x})

\* The request object req becomes next.
Step(req, next) == reqs' = (reqs (-) One(req)) (+) One(next)

AllRequests == BagToSet(reqs)

Init ==
  /\ apis = InitialApis
  /\ datasources = InitialDatasources
  /\ api_parameters = InitialParameters
  /\ api_access_logs = EmptyBag
  /\ api_call_stats = <<>>
  /\ executed = EmptyBag
  /\ clock = 0
  /\ reqs = [req \in {NewRequest} |-> MaxRequests]
  /\ pools = StartServer(InitialDatasources)
  /\ ops = EmptyBag
  /\ sqlite_sequence = 2
  /\ publicPaths = InitPublicPaths(apis)
  /\ probe = NoProbe

\* router.use(optionalApiTokenAuth): never rejects, leaves the principal if any.
OptionalApiTokenAuth(req) ==
  /\ req.pc = "new"
  /\ \E token \in Tokens :
       LET who == OptionalApiTokenAuthResult(token)
       IN Step(req, [req EXCEPT !.pc = "route", !.userId = who.userId,
                                !.tokenPermissions = who.tokenPermissions])
  /\ UNCHANGED <<tables, publicPaths, registry, api_access_logs, api_call_stats, executed, clock, probe>>

\* The row INSERT INTO api_access_logs writes; its date is the date part of `now`.
LogRow(row, date) ==
  [api_id |-> row.api_id, response_status |-> row.response_status,
   execution_time |-> row.execution_time, status |-> row.status, date |-> date]

\* The request as it waits for its upsert, its log row written.
Logged(req, row) ==
  [req EXCEPT !.pc = "stats", !.pending = row, !.today = clock, !.logs = @ + 1]

\* What is left of a request once the response is sent: the status the client got,
\* the endpoint it was matched to and the counts of what it wrote.
Responded(req, status) ==
  [NewRequest EXCEPT !.pc = "done", !.response = status, !.api = req.api,
                     !.logs = req.logs, !.upserts = req.upserts,
                     !.dispatches = req.dispatches]

\* Lines 108-227: match the request, merge the parameters, pass the gates; a gate
\* that rejects writes its access log row.
Route(req) ==
  /\ req.pc = "route"
  /\ \E shape \in RequestShapes :
       LET m == FindMatchingAPI(apis, datasources, shape.path, shape.method)
           wildcard == <<Entry("path", PathString(shape.path))>>
           params == ObjectAssign(wildcard, m.pathParams)
           allParams == ObjectAssign(ObjectAssign(params, shape.query), shape.body)
           seen == [req EXCEPT !.path = shape.path, !.method = shape.method,
                               !.query = shape.query, !.body = shape.body,
                               !.params = params, !.api = m.api, !.allParams = allParams]
           gate == GateOutcome(m.api, req.userId, req.tokenPermissions)
           row == FailureLog(m.api.id, gate)
       IN IF ~m.found
            THEN /\ Step(req, Responded(seen, 404))
                 /\ UNCHANGED api_access_logs
          ELSE IF gate # 0
            THEN /\ Step(req, Logged(seen, row))
                 /\ api_access_logs' = api_access_logs (+) One(LogRow(row, clock))
          ELSE /\ Step(req, [seen EXCEPT !.pc = "validate"])
               /\ UNCHANGED api_access_logs
  /\ UNCHANGED <<tables, publicPaths, registry, api_call_stats, executed, clock, probe>>

\* SELECT * FROM api_parameters WHERE api_id = ? ORDER BY id
GetAPIParameters(apiId) ==
  IF apiId \in DOMAIN api_parameters THEN api_parameters[apiId] ELSE <<>>

\* Lines 229-309: validate the merged bag; reject with 400 and a log row, or
\* render the SQL, cap its rows and hand it to the pool registry.
Validate(req) ==
  /\ req.pc = "validate"
  /\ LET v == ValidateAndSanitizeRequest(GetAPIParameters(req.api.id), req.allParams)
         rendered == RenderSql(req.api.sql_template, v.sanitizedParams)
         sql == ApplyRowCap(rendered.sql, req.api.type)
         row == FailureLog(req.api.id, 400)
     IN IF ~v.valid
          THEN /\ Step(req, Logged([req EXCEPT !.errors = v.errors], row))
               /\ api_access_logs' = api_access_logs (+) One(LogRow(row, clock))
               /\ UNCHANGED executed
          ELSE /\ Step(req, [req EXCEPT !.pc = "execute", !.sql = sql,
                               !.sanitizedParams = v.sanitizedParams,
                               !.queryParams = rendered.queryParams, !.dispatches = @ + 1])
               /\ executed' = executed (+)
                    One([api_id |-> req.api.id, pool |-> req.api.datasource_id, sql |-> sql,
                         params |-> rendered.queryParams, type |-> req.api.type])
               /\ UNCHANGED api_access_logs
  /\ UNCHANGED <<tables, publicPaths, registry, api_call_stats, clock, probe>>

\* Lines 309-322: databasePool.executeQuery returns rows after some time and the
\* success row is logged, or the driver throws.
Execute(req) ==
  /\ req.pc = "execute"
  /\ \/ \E executionTime \in Durations :
          LET row == SuccessLog(req.api.id, executionTime)
          IN /\ Step(req, Logged(req, row))
             /\ api_access_logs' = api_access_logs (+) One(LogRow(row, clock))
     \/ /\ Step(req, [req EXCEPT !.pc = "catch"])
        /\ UNCHANGED api_access_logs
  /\ UNCHANGED <<tables, publicPaths, registry, api_call_stats, executed, clock, probe>>

\* Lines 342-381: the catch block looks the endpoint up again by the request path
\* and logs the failure against the row it finds; without a row it answers 500
\* and writes nothing.
Catch(req) ==
  /\ req.pc = "catch"
  /\ LET found == CatchLookup(apis, req.path, req.method)
         row == FailureLog(found[1].id, 500)
     IN IF Len(found) > 0
          THEN /\ Step(req, Logged(req, row))
               /\ api_access_logs' = api_access_logs (+) One(LogRow(row, clock))
          ELSE /\ Step(req, Responded(req, 500))
               /\ UNCHANGED api_access_logs
  /\ UNCHANGED <<tables, publicPaths, registry, api_call_stats, executed, clock, probe>>

\* INSERT INTO api_call_stats ... ON CONFLICT DO UPDATE, then the response.
UpsertStats(req) ==
  /\ req.pc = "stats"
  /\ api_call_stats' =
       IF req.pending.status = "success"
         THEN UpsertSuccess(api_call_stats, req.pending.api_id, req.today,
                            req.pending.execution_time)
         ELSE UpsertFailure(api_call_stats, req.pending.api_id, req.today)
  /\ Step(req, Responded([req EXCEPT !.upserts = @ + 1], req.pending.response_status))
  /\ UNCHANGED <<tables, publicPaths, registry, api_access_logs, executed, clock, probe>>

\* Midnight passes.
AdvanceDay ==
  /\ clock + 1 \in Days
  /\ clock' = clock + 1
  /\ UNCHANGED <<tables, publicPaths, registry, api_access_logs, api_call_stats, executed, reqs, probe>>

Next ==
  \/ \E req \in AllRequests : OptionalApiTokenAuth(req)
  \/ \E req \in AllRequests : Route(req)
  \/ \E req \in AllRequests : Validate(req)
  \/ \E req \in AllRequests : Execute(req)
  \/ \E req \in AllRequests : Catch(req)
  \/ \E req \in AllRequests : UpsertStats(req)
  \/ AdvanceDay

Spec == Init /\ [][Next]_vars

\* ------------------------------------------------- properties of the route

\* The row of table apis with this id.
ApiRow(id) == apis[CHOOSE i \in 1..Len(apis) : apis[i].id = id]

ApiIds == {apis[i].id : i \in 1..Len(apis)}

\* The number of requests in the bag that satisfy Test.
CountRequests(Test(_)) ==
  BagCardinality([req \in {r \in AllRequests : Test(r)} |-> reqs[req]])

\* The rows of api_access_logs of one endpoint on one day.
LogsOf(api_id, date) ==
  {row \in BagToSet(api_access_logs) : row.api_id = api_id /\ row.date = date}

RECURSIVE SumTimes(_)
SumTimes(rows) ==
  IF rows = {} THEN 0
  ELSE LET row == CHOOSE r \in rows : TRUE
       IN row.execution_time * CopiesIn(row, api_access_logs) + SumTimes(rows \ {row})

RECURSIVE CountRows(_)
CountRows(rows) ==
  IF rows = {} THEN 0
  ELSE LET row == CHOOSE r \in rows : TRUE
       IN CopiesIn(row, api_access_logs) + CountRows(rows \ {row})

\* C1: every request answered with 200, 400, 401, 403, 500 or 503 has written
\* exactly one access log row and made exactly one usage-aggregate upsert.
C1_OneLogOneUpsert ==
  \A req \in AllRequests :
    req.pc = "done" /\ req.response \in {200, 400, 401, 403, 500, 503}
      => req.logs = 1 /\ req.upserts = 1

\* The gate order MATCH, AUTH_GATE, DATASOURCE_GATE, PERMISSION_GATE as a status.
AuthFirstOutcome(api, userId, tokenPermissions) ==
  IF api.require_auth = 1 /\ userId = 0 THEN 401
  ELSE IF api.ds_status # "active" THEN 503
  ELSE IF api.require_auth = 1 /\ ~CheckApiPermission(tokenPermissions, api) THEN 403
  ELSE 0

\* C2: a matched request is rejected by the first gate that rejects in the order
\* authentication, datasource, permission, validation, and goes on to the later
\* steps only when none of the first three rejects.
C2_FirstRejectingGateDecides ==
  \A req \in AllRequests :
    req.api.id # 0 /\ req.pc # "done" =>
      LET first == AuthFirstOutcome(req.api, req.userId, req.tokenPermissions)
      IN IF first # 0
           THEN req.pc = "stats" /\ req.pending.response_status = first
           ELSE /\ req.pc \in {"validate", "execute", "catch", "stats"}
                /\ req.pc = "stats" => req.pending.response_status \in {400, 200, 500}

\* C3: once every request is answered, all within one calendar day, the usage
\* aggregate of each endpoint counts exactly the requests matched to it, in one
\* row per (endpoint, day).
C3_CallCountIsRequestCount ==
  (clock = 0 /\ \A req \in AllRequests : req.pc \in {"new", "done"}) =>
    \A id \in ApiIds :
      LET n == CountRequests(LAMBDA r : r.pc = "done" /\ r.api.id = id)
      IN IF <<id, 0>> \in DOMAIN api_call_stats
           THEN api_call_stats[<<id, 0>>].call_count = n
           ELSE n = 0

\* C4: whenever no upsert is outstanding, avg_response_time of every usage
\* aggregate row is the true mean of the durations recorded for that endpoint
\* and day (over its successful calls, or over all its calls).
C4_AverageIsTrueMean ==
  (\A req \in AllRequests : req.pc # "stats") =>
    \A key \in DOMAIN api_call_stats :
      LET avg == api_call_stats[key].avg_response_time
          rows == LogsOf(key[1], key[2])
          good == {row \in rows : row.status = "success"}
      IN \/ avg.n * CountRows(rows) = avg.d * SumTimes(rows)
         \/ /\ good # {}
            /\ avg.n * CountRows(good) = avg.d * SumTimes(good)
         \/ good = {} /\ avg.n = 0

\* C5: on an auth-required endpoint SQL is dispatched only for a principal whose
\* scope holds the endpoint; a request without principal is rejected with 401 and
\* a principal without the scope with 403, neither dispatching SQL.
C5_AuthRequiredOutcomes ==
  \A req \in AllRequests :
    req.api.id # 0 /\ req.api.require_auth = 1 /\ req.pc # "done" =>
      LET scoped == req.userId # 0 /\ CheckApiPermission(req.tokenPermissions, req.api)
      IN /\ req.dispatches > 0 => scoped
         /\ req.userId = 0 => req.pc = "stats" /\ req.pending.response_status = 401
         /\ req.userId # 0 /\ ~scoped =>
              req.pc = "stats" /\ req.pending.response_status = 403

\* C6: a request matched to an endpoint whose datasource is not active, or is
\* gone, is answered 503 and never reaches the pool registry.
C6_InactiveDatasourceIs503 ==
  /\ \A req \in AllRequests :
       req.api.id # 0 /\ req.api.ds_status # "active" =>
         /\ req.dispatches = 0
         /\ req.pc \in {"stats", "done"}
         /\ req.pc = "stats" => req.pending.response_status = 503 /\ req.logs = 1
         /\ req.pc = "done" => req.response = 503
  /\ \A call \in BagToSet(executed) :
       /\ call.pool \in DOMAIN datasources
       /\ datasources[call.pool].status = "active"

\* Requests to an endpoint on the inactive datasource and to one whose datasource
\* row is gone have both been answered 503.
C6_Witness ==
  /\ \E req \in AllRequests :
       req.pc = "done" /\ req.response = 503 /\ req.api.ds_status = "inactive"
  /\ \E req \in AllRequests :
       req.pc = "done" /\ req.response = 503 /\ req.api.ds_status = "null"

\* C7: only published endpoints of the request's verb are matched, executed or
\* logged against: every matched endpoint, every dispatched statement, every
\* access log row and every usage aggregate row belongs to a published endpoint.
C7_OnlyPublishedReached ==
  /\ \A req \in AllRequests :
       req.api.id # 0 =>
         /\ ApiRow(req.api.id).status = "published"
         /\ req.pc # "done" => req.api.method = req.method
  /\ \A call \in BagToSet(executed) : ApiRow(call.api_id).status = "published"
  /\ \A row \in BagToSet(api_access_logs) : ApiRow(row.api_id).status = "published"
  /\ \A key \in DOMAIN api_call_stats : ApiRow(key[1]).status = "published"

\* The names of the required parameters of the endpoint the bag does not carry.
MissingRequired(apiId, bag) ==
  LET parameters == IF apiId \in DOMAIN api_parameters THEN api_parameters[apiId] ELSE <<>>
  IN {parameters[i].param_name :
        i \in {j \in 1..Len(parameters) :
                 parameters[j].required = 1 /\ parameters[j].param_name \notin ObjKeys(bag)}}

\* C13: a request that passed the gates and omits required parameters is rejected
\* with 400, its field errors name every missing parameter, and it dispatches no
\* SQL.
C13_MissingRequiredIs400 ==
  \A req \in AllRequests :
    LET missing == MissingRequired(req.api.id, req.allParams)
    IN req.api.id # 0 /\ req.pc # "done" /\ missing # {} =>
         /\ req.dispatches = 0
         /\ req.pc \in {"validate", "stats"}
         /\ req.pc = "stats" =>
              /\ req.pending.response_status \in {400, 401, 403, 503}
              /\ req.pending.response_status = 400 => missing \subseteq req.errors

\* A request that omits two required parameters has been rejected with 400 and
\* both names are among its field errors.
C13_Witness ==
  \E req \in AllRequests :
    /\ req.pc = "stats" /\ req.pending.response_status = 400 /\ req.dispatches = 0
    /\ Cardinality(MissingRequired(req.api.id, req.allParams)) = 2
    /\ MissingRequired(req.api.id, req.allParams) \subseteq req.errors

\* The names of the parameters declared for the endpoint.
DeclaredNames(apiId) ==
  LET parameters == IF apiId \in DOMAIN api_parameters THEN api_parameters[apiId] ELSE <<>>
  IN {parameters[i].param_name : i \in 1..Len(parameters)}

\* C14: the sanitized bag of a request that passed validation, the one SQL
\* rendering runs over, holds only keys declared as parameters of the endpoint.
C14_OnlyDeclaredKeysRendered ==
  \A req \in AllRequests :
    req.pc = "execute" => ObjKeys(req.sanitizedParams) \subseteq DeclaredNames(req.api.id)

\* The position in queryParams of the value bound for key: the loop appends one
\* value per bound key of the bag, in the order of the bag.
BoundIndex(bag, sql_template, key) ==
  Cardinality({i \in 1..Len(bag) :
                 /\ SqlIncludes(sql_template, bag[i].k)
                 /\ bag[i].k \notin DirectReplaceParams \cup {SearchParam}
                 /\ i <= (CHOOSE j \in 1..Len(bag) : bag[j].k = key)})

\* C10: when the matched path has a ':name' piece and the SQL holds {{name}}, the
\* dispatched SQL has a bind mark in its place and the value bound for it is the
\* request's path piece at that position.
C10_PathPieceIsBound ==
  \A req \in AllRequests :
    req.pc = "execute" =>
      LET apiSegs == FilterBoolean(req.api.path)
          reqSegs == FilterBoolean(req.path)
      IN \A i \in 1..Len(apiSegs) :
           LET name == Substring1(apiSegs[i])
           IN StartsWithColon(apiSegs[i]) /\ SqlIncludes(req.api.sql_template, name) =>
                /\ \A j \in 1..Len(req.api.sql_template) :
                     req.api.sql_template[j] = Ph(name) => req.sql[j] = BindMark
                /\ req.queryParams[BoundIndex(req.allParams, req.api.sql_template, name)]
                     = reqSegs[i]

\* C19: when the driver raises an error on the SQL of a matched endpoint, the
\* query was dispatched once, one failure row with that endpoint's id and status
\* 500 is written to the access log, and the request goes on to answer 500.
C19_DriverErrorLogged ==
  [][\A req \in AllRequests :
       (req.pc = "catch" /\ CopiesIn(req, reqs') < CopiesIn(req, reqs)) =>
         /\ req.dispatches = 1
         /\ api_access_logs' =
              api_access_logs (+) One(LogRow(FailureLog(req.api.id, 500), clock))
         /\ \E next \in BagToSet(reqs') :
              /\ next.pending = FailureLog(req.api.id, 500)
              /\ CopiesIn(next, reqs') > CopiesIn(next, reqs)]_vars

\* The sum of one counter over the rows of a usage-aggregate table.
RECURSIVE TotalOf(_, _)
TotalOf(stats, counter) ==
  IF DOMAIN stats = {} THEN 0
  ELSE LET key == CHOOSE k \in DOMAIN stats : TRUE
       IN stats[key][counter] + TotalOf([k \in DOMAIN stats \ {key} |-> stats[k]], counter)

\* The number of requests answered on a matched endpoint.
AnsweredRequests ==
  CountRequests(LAMBDA r : r.pc = "done" /\ r.response \in {200, 400, 401, 403, 500, 503})

\* C30: every usage-aggregate row has call_count = success_count + failure_count,
\* and the step that answers a request on a matched endpoint raises exactly one
\* of success_count and failure_count, by one, and leaves the other.
C30_CountsAddUpAndMoveByOne ==
  [][/\ \A key \in DOMAIN api_call_stats' :
          api_call_stats'[key].call_count =
            api_call_stats'[key].success_count + api_call_stats'[key].failure_count
     /\ AnsweredRequests' = AnsweredRequests + 1 =>
          LET success == TotalOf(api_call_stats', "success_count")
                           - TotalOf(api_call_stats, "success_count")
              failure == TotalOf(api_call_stats', "failure_count")
                           - TotalOf(api_call_stats, "failure_count")
          IN <<success, failure>> \in {<<1, 0>>, <<0, 1>>}]_vars

\* ------------------------------------------------ the route matcher on its own

Def(path, method, status) == [path |-> path, method |-> method, status |-> status]

\* Endpoint definitions an operator can store.
EndpointDefs ==
  { Def(<<"users">>, "GET", "published"),
    Def(<<"users", "">>, "GET", "published"),
    Def(<<"users", ":id">>, "GET", "published"),
    Def(<<"users", ":name">>, "GET", "published"),
    Def(<<"users", "42">>, "GET", "published"),
    Def(<<"users", "42">>, "GET", "draft"),
    Def(<<"users", "me">>, "GET", "deprecated"),
    Def(<<"users", "42">>, "POST", "published") }

\* UNIQUE (path, method) of table apis.
UniquePathMethod(defs) ==
  \A i, j \in 1..Len(defs) :
    defs[i].path = defs[j].path /\ defs[i].method = defs[j].method => i = j

\* The table that holds the definitions in this order: the id is the rowid.
TableOf(defs) ==
  [i \in 1..Len(defs) |-> Api(i, defs[i].path, defs[i].method, defs[i].status, 0, 1, SqlAll)]

Tables ==
  {TableOf(defs) : defs \in {d \in UNION {[1..n -> EndpointDefs] : n \in 0..MaxRows} :
                               UniquePathMethod(d)}}

ProbePaths == {<<"users">>, <<"users", "42">>, <<"users", "me">>}

MatchInit ==
  /\ apis \in Tables
  /\ datasources = InitialDatasources
  /\ api_parameters = <<>>
  /\ api_access_logs = EmptyBag
  /\ api_call_stats = <<>>
  /\ executed = EmptyBag
  /\ clock = 0
  /\ reqs = EmptyBag
  /\ pools = StartServer(InitialDatasources)
  /\ ops = EmptyBag
  /\ sqlite_sequence = 2
  /\ publicPaths = InitPublicPaths(apis)
  /\ probe = NoProbe

\* findMatchingAPI(path, method) is called once.
ProbeMatch ==
  /\ probe.pc = "idle"
  /\ \E path \in ProbePaths, method \in Methods :
       probe' = [pc |-> "matched", path |-> path, method |-> method,
                 result |-> FindMatchingAPI(apis, datasources, path, method)]
  /\ UNCHANGED <<tables, publicPaths, registry, api_access_logs, api_call_stats, executed, clock, reqs>>

MatchNext == ProbeMatch

MatchSpec == MatchInit /\ [][MatchNext]_vars

\* ----------------------------------------------- properties of the matcher

\* The published rows of the verb that fit the request path, as row positions.
Fits(table, path, method) ==
  {i \in 1..Len(table) :
     /\ table[i].status = "published"
     /\ table[i].method = method
     /\ Len(FilterBoolean(table[i].path)) = Len(FilterBoolean(path))
     /\ \A k \in 1..Len(FilterBoolean(path)) :
          \/ StartsWithColon(FilterBoolean(table[i].path)[k])
          \/ FilterBoolean(table[i].path)[k] = FilterBoolean(path)[k]}

IsFixed(row) == \A k \in 1..Len(row.path) : ~StartsWithColon(row.path[k])

Min(S) == CHOOSE x \in S : \A y \in S : x <= y

Max(S) == CHOOSE x \in S : \A y \in S : y <= x

\* C8: when a fixed-path row and a parameterized row both fit the request, the
\* matcher returns a fixed-path row, wherever the rows stand in the table.
C8_FixedPathPreferred ==
  probe.pc = "matched" =>
    LET fits == Fits(apis, probe.path, probe.method)
    IN (\E i \in fits : IsFixed(apis[i])) =>
         /\ probe.result.found
         /\ probe.result.api.id \in {apis[i].id : i \in {j \in fits : IsFixed(apis[j])}}
         /\ probe.result.pathParams = EmptyObj

\* A parameterized row that fits is stored before a fixed row that fits, and the
\* matcher was run.
C8_Witness ==
  /\ probe.pc = "matched"
  /\ \E i, j \in Fits(apis, probe.path, probe.method) :
       i < j /\ ~IsFixed(apis[i]) /\ IsFixed(apis[j]) /\ probe.result.api.id = apis[j].id

\* The table with the same rows stored in another order.
Reordered(table, perm) == [i \in 1..Len(table) |-> table[perm[i]]]

RowOrders(n) == {f \in [1..n -> 1..n] : \A i, j \in 1..n : f[i] = f[j] => i = j}

\* C9 as stated: the same endpoints stored in any order give the same endpoint
\* and the same bindings.
C9_SameSetSameResult ==
  probe.pc = "matched" =>
    \A perm \in RowOrders(Len(apis)) :
      LET other == FindMatchingAPI(Reordered(apis, perm), datasources, probe.path, probe.method)
      IN /\ other.found = probe.result.found
         /\ other.api.path = probe.result.api.path
         /\ other.pathParams = probe.result.pathParams

\* C9: the result is fixed by the request and the rows in their stored order: the
\* first fixed-path row that fits, else the first parameterized row that fits,
\* with each ':name' piece bound to the request piece at its position.
C9_FirstFitInRowOrder ==
  probe.pc = "matched" =>
    LET fits == Fits(apis, probe.path, probe.method)
        fixed == {i \in fits : IsFixed(apis[i])}
        reqSegs == FilterBoolean(probe.path)
    IN IF fits = {} THEN ~probe.result.found /\ probe.result.api.id = 0
       ELSE LET row == apis[IF fixed # {} THEN Min(fixed) ELSE Min(fits)]
                segs == FilterBoolean(row.path)
                named == {k \in 1..Len(segs) : StartsWithColon(segs[k])}
            IN /\ probe.result.found
               /\ probe.result.api.id = row.id
               /\ ObjKeys(probe.result.pathParams) = {Substring1(segs[k]) : k \in named}
               /\ \A k \in named :
                    ObjGet(probe.result.pathParams, Substring1(segs[k])) = reqSegs[k]

\* Two parameterized rows fit the request and the matcher returned the one
\* stored first, binding its name.
C9_Witness ==
  /\ probe.pc = "matched"
  /\ \E i, j \in Fits(apis, probe.path, probe.method) :
       /\ i < j /\ ~IsFixed(apis[i]) /\ ~IsFixed(apis[j])
       /\ probe.result.api.id = apis[i].id
       /\ probe.result.pathParams # EmptyObj

\* ------------------------------------------------ SQL rendering on its own

\* Keys a sanitized bag can carry: the three raw keys, the search key, two
\* ordinary keys and the wildcard key, which no template mentions.
RenderKeys == {"order_by", "limit", "search", "id", "path"}

RenderValues == {"name; DROP TABLE users", "o'k", "7"}

SqlSearch ==
  <<Text("SELECT"), Text(" * FROM users WHERE name LIKE "), Ph("search"), Text(" AND id = "),
    Ph("id"), Text(" ORDER BY "), Ph("order_by")>>

SqlTwice ==
  <<Text("SELECT"), Text(" * FROM users WHERE id = "), Ph("id"), Text(" OR parent = "),
    Ph("id"), Text(" LIMIT "), Ph("limit")>>

RenderTemplates == {SqlAll, SqlSearch, SqlTwice}

\* Objects with distinct keys, in every insertion order.
RenderBags ==
  {bag \in UNION {[1..n -> [k : RenderKeys, v : RenderValues]] : n \in 0..MaxBag} :
     \A i, j \in 1..Len(bag) : bag[i].k = bag[j].k => i = j}

RenderInit ==
  /\ apis = InitialApis
  /\ datasources = InitialDatasources
  /\ api_parameters = InitialParameters
  /\ api_access_logs = EmptyBag
  /\ api_call_stats = <<>>
  /\ executed = EmptyBag
  /\ clock = 0
  /\ reqs = EmptyBag
  /\ pools = StartServer(InitialDatasources)
  /\ ops = EmptyBag
  /\ sqlite_sequence = 2
  /\ publicPaths = InitPublicPaths(apis)
  /\ \E sql_template \in RenderTemplates, bag \in RenderBags :
       probe = [pc |-> "bag", sql_template |-> sql_template, bag |-> bag,
                sql |-> <<>>, queryParams |-> <<>>]

\* The loop of lines 259-279 runs over the bag.
Render ==
  /\ probe.pc = "bag"
  /\ LET rendered == RenderSql(probe.sql_template, probe.bag)
     IN probe' = [probe EXCEPT !.pc = "rendered", !.sql = rendered.sql,
                               !.queryParams = rendered.queryParams]
  /\ UNCHANGED <<tables, publicPaths, registry, api_access_logs, api_call_stats, executed, clock, reqs>>

RenderNext == Render

RenderSpec == RenderInit /\ [][RenderNext]_vars

\* The entries of the bag whose value is bound: their placeholder is in the SQL
\* and their key is neither a raw key nor the search key.
BoundEntries(bag, sql_template) ==
  SelectSeq(bag, LAMBDA e : /\ \E j \in 1..Len(sql_template) : sql_template[j] = Ph(e.k)
                            /\ e.k \notin {"order_by", "order", "limit", "search"})

BindMarks(sql) == SelectSeq([j \in 1..Len(sql) |-> j], LAMBDA j : sql[j] = BindMark)

\* C27: the rendered SQL has as many bind marks as there are bound values, and the
\* i-th bind mark from the left stands where the placeholder of the key of the
\* i-th bound value stood.
C27_BindMarksMatchBoundValues ==
  probe.pc = "rendered" =>
    LET marks == BindMarks(probe.sql)
        bound == BoundEntries(probe.bag, probe.sql_template)
    IN /\ Len(marks) = Len(probe.queryParams)
       /\ Len(marks) = Len(bound)
       /\ \A i \in 1..Len(marks) :
            /\ probe.sql_template[marks[i]] = Ph(bound[i].k)
            /\ probe.queryParams[i] = bound[i].v

Leads == {<<>>, <<Text(" ")>>}

Verbs == {"SELECT", "select", "INSERT"}

Bodies ==
  { <<Text(" * FROM users")>>,
    <<Text(" * FROM users WHERE sep = '"), Text(";"), Text("'")>> }

NoClause == <<>>

TopClauses == {NoClause, <<Text(" TOP "), Text("10")>>}

\* The row-limit clauses of a dialect that stand at the end of the statement.
EndClauses(type) ==
  IF type \in {"mysql", "postgresql"}
    THEN {NoClause, <<Text(" LIMIT "), Text("10")>>, <<Text(" limit "), Text("10")>>,
          <<Text("\nLIMIT "), Text("10")>>}
  ELSE IF type = "oracle"
    THEN {NoClause, <<Text(" FETCH FIRST "), Text("10 ROWS ONLY")>>,
          <<Text(" WHERE"), Text(" ROWNUM "), Text("<= 10")>>}
  ELSE {NoClause}

Terminators == {<<>>, <<Text(";")>>, <<Text(";"), Text("\n")>>}

Statement(lead, verb, top, body, clause, term) ==
  lead \o <<Text(verb)>> \o top \o body \o clause \o term

CapInit ==
  /\ apis = InitialApis
  /\ datasources = InitialDatasources
  /\ api_parameters = InitialParameters
  /\ api_access_logs = EmptyBag
  /\ api_call_stats = <<>>
  /\ executed = EmptyBag
  /\ clock = 0
  /\ reqs = EmptyBag
  /\ pools = StartServer(InitialDatasources)
  /\ ops = EmptyBag
  /\ sqlite_sequence = 2
  /\ publicPaths = InitPublicPaths(apis)
  /\ \E type \in Dialects, lead \in Leads, verb \in Verbs, body \in Bodies,
        term \in Terminators :
       \E top \in IF type = "mssql" THEN TopClauses ELSE {NoClause},
          clause \in EndClauses(type) :
         probe = [pc |-> "statement", type |-> type, lead |-> lead, verb |-> verb,
                  top |-> top, body |-> body, clause |-> clause, term |-> term,
                  sql |-> Statement(lead, verb, top, body, clause, term), capped |-> <<>>]

\* Lines 281-307 run on the rendered statement.
Cap ==
  /\ probe.pc = "statement"
  /\ probe' = [probe EXCEPT !.pc = "capped", !.capped = ApplyRowCap(probe.sql, probe.type)]
  /\ UNCHANGED <<tables, publicPaths, registry, api_access_logs, api_call_stats, executed, clock, reqs>>

CapNext == Cap

CapSpec == CapInit /\ [][CapNext]_vars

\* The statement with the one cap of its dialect, before the terminator.
WithOneCap(st) ==
  IF st.type = "mssql"
    THEN st.lead \o <<Text("SELECT TOP 1000")>> \o st.body \o st.term
    ELSE st.lead \o <<Text(st.verb)>> \o st.body
           \o <<Text(IF st.type = "oracle" THEN " FETCH FIRST 1000 ROWS ONLY" ELSE " LIMIT 1000")>>
           \o st.term

\* C12: a SELECT without a row-limit clause gets the one cap of its dialect,
\* before its terminator; any other statement is left as it is.
C12_OneCapForUnlimitedSelect ==
  probe.pc = "capped" =>
    IF probe.verb \in {"SELECT", "select"} /\ probe.top = NoClause /\ probe.clause = NoClause
      THEN probe.capped = WithOneCap(probe)
      ELSE probe.capped = probe.sql

\* ------------------------------------------------------ the datasource routes

\* The ids table datasources can hand out.
DatasourceIds == {1, 2, 3}

\* The dialects the datasource requests name: one that registers at once and one
\* that awaits its driver.
PoolDialects == {"mysql", "mssql"}

NoRow == [status |-> "null", type |-> "null", config |-> 0]

\* The datasources the server starts with.
PoolDatasources ==
  [d \in {1, 2} |-> IF d = 1 THEN [status |-> "active", type |-> "mysql", config |-> 1]
                            ELSE [status |-> "inactive", type |-> "mssql", config |-> 1]]

\* The body of PUT /:id: type, the connection fields (host, port, database_name,
\* username, password, as one value; 0 when absent) and status; "none" when absent.
Body(type, config, status) == [type |-> type, config |-> config, status |-> status]

EditBodies ==
  { Body("none", 0, "inactive"), Body("none", 0, "active"), Body("none", 2, "none"),
    Body("mssql", 0, "none"), Body("mysql", 0, "none") }

\* x ?? y for a text field, "none" when absent, and for the connection fields, 0
\* when absent.
Coalesce(x, y) == IF x = "none" THEN y ELSE x

CoalesceConfig(x, y) == IF x = 0 THEN y ELSE x

\* result.insertId of the array db.all returns for an INSERT: undefined, as 0.
InsertId(result) == IF "insertId" \in DOMAIN result THEN result.insertId ELSE 0

NewOp ==
  [pc |-> "new", kind |-> "none", id |-> 0, body |-> Body("none", 0, "none"),
   existing |-> NoRow, config |-> Pool(0, NoRow), poolName |-> "", response |-> 0]

\* What is left of a datasource request once the response is sent.
OpDone(kind, status) == [NewOp EXCEPT !.pc = "done", !.kind = kind, !.response = status]

OpStep(op, next) == ops' = (ops (-) One(op)) (+) One(next)

AllOps == BagToSet(ops)

PoolInit ==
  /\ apis = <<>>
  /\ datasources = PoolDatasources
  /\ api_parameters = <<>>
  /\ api_access_logs = EmptyBag
  /\ api_call_stats = <<>>
  /\ executed = EmptyBag
  /\ clock = 0
  /\ reqs = EmptyBag
  /\ pools = StartServer(PoolDatasources)
  /\ ops = [op \in {NewOp} |-> MaxOps]
  /\ sqlite_sequence = 2
  /\ publicPaths = InitPublicPaths(apis)
  /\ probe = NoProbe

\* router.post('/') up to the INSERT: the connection test, then the new row.
PostDatasource(op) ==
  /\ op.pc = "new"
  /\ \/ /\ OpStep(op, OpDone("create", 400))
        /\ UNCHANGED <<datasources, sqlite_sequence>>
     \/ \E type \in PoolDialects, status \in {"active", "inactive"} :
          LET id == sqlite_sequence + 1
              row == [status |-> status, type |-> type, config |-> 1]
          IN /\ id \in DatasourceIds
             /\ datasources' = MapSet(datasources, id, row)
             /\ sqlite_sequence' = id
             /\ OpStep(op, [op EXCEPT !.pc = "pool", !.kind = "create", !.id = id,
                                      !.config = Pool(id, row),
                                      !.poolName = PoolName(InsertId(<<>>))])
  /\ UNCHANGED <<apis, api_parameters, publicPaths, pools, api_access_logs, api_call_stats, executed,
                 clock, reqs, probe>>

\* await databasePool.createPool(config, poolName) up to its first await, of
\* router.post('/') and router.put('/:id').
CreatePoolCall(op) ==
  /\ op.pc = "pool"
  /\ LET r == CreatePool(pools, op.config, op.poolName)
     IN /\ pools' = r.pools
        /\ IF r.threw THEN OpStep(op, OpDone(op.kind, 500))
           ELSE IF r.connecting THEN OpStep(op, [op EXCEPT !.pc = "connect"])
           ELSE OpStep(op, OpDone(op.kind, IF op.kind = "create" THEN 201 ELSE 200))
  /\ UNCHANGED <<tables, publicPaths, sqlite_sequence, api_access_logs, api_call_stats, executed, clock,
                 reqs, probe>>

\* The driver connects and the pool is registered, or the driver throws.
ConnectPool(op) ==
  /\ op.pc = "connect"
  /\ \/ /\ pools' = RegisterPool(pools, op.config, op.poolName)
        /\ OpStep(op, OpDone(op.kind, IF op.kind = "create" THEN 201 ELSE 200))
     \/ /\ OpStep(op, OpDone(op.kind, 500))
        /\ UNCHANGED pools
  /\ UNCHANGED <<tables, publicPaths, sqlite_sequence, api_access_logs, api_call_stats, executed, clock,
                 reqs, probe>>

\* router.put('/:id'): SELECT * FROM datasources WHERE id = ?
PutRead(op) ==
  /\ op.pc = "new"
  /\ \E id \in DatasourceIds, body \in EditBodies :
       IF id \notin DOMAIN datasources
         THEN OpStep(op, OpDone("update", 404))
         ELSE OpStep(op, [op EXCEPT !.pc = "read", !.kind = "update", !.id = id,
                                    !.body = body, !.existing = datasources[id]])
  /\ UNCHANGED <<tables, publicPaths, pools, sqlite_sequence, api_access_logs, api_call_stats, executed,
                 clock, reqs, probe>>

\* The row router.put('/:id') writes: each field of the body, else the one read.
Updated(op) ==
  [status |-> Coalesce(op.body.status, op.existing.status),
   type |-> Coalesce(op.body.type, op.existing.type),
   config |-> CoalesceConfig(op.body.config, op.existing.config)]

\* if (type || host || port || username || password || database_name)
Recreates(body) == body.type # "none" \/ body.config # 0

\* router.put('/:id'): the UPDATE.
PutUpdate(op) ==
  /\ op.pc = "read"
  /\ datasources' = IF op.id \in DOMAIN datasources
                      THEN [datasources EXCEPT ![op.id] = Updated(op)]
                      ELSE datasources
  /\ IF Recreates(op.body)
       THEN OpStep(op, [op EXCEPT !.pc = "close"])
       ELSE OpStep(op, OpDone("update", 200))
  /\ UNCHANGED <<apis, api_parameters, publicPaths, pools, sqlite_sequence, api_access_logs,
                 api_call_stats, executed, clock, reqs, probe>>

\* router.put('/:id'): closePool(`ds_${id}`, existing.type)
PutClose(op) ==
  /\ op.pc = "close"
  /\ pools' = ClosePool(pools, PoolName(op.id), op.existing.type)
  /\ OpStep(op, [op EXCEPT !.pc = "pool", !.config = Pool(op.id, Updated(op)),
                           !.poolName = PoolName(op.id)])
  /\ UNCHANGED <<tables, publicPaths, sqlite_sequence, api_access_logs, api_call_stats, executed, clock,
                 reqs, probe>>

\* router.delete('/:id'): SELECT * FROM datasources WHERE id = ?
DeleteRead(op) ==
  /\ op.pc = "new"
  /\ \E id \in DatasourceIds :
       IF id \in DOMAIN datasources
         THEN OpStep(op, [op EXCEPT !.pc = "found", !.kind = "delete", !.id = id,
                                    !.existing = datasources[id]])
         ELSE OpStep(op, [op EXCEPT !.pc = "delete", !.kind = "delete", !.id = id])
  /\ UNCHANGED <<tables, publicPaths, pools, sqlite_sequence, api_access_logs, api_call_stats, executed,
                 clock, reqs, probe>>

\* router.delete('/:id'): closePool(`ds_${id}`, ds.type)
DeleteClose(op) ==
  /\ op.pc = "found"
  /\ pools' = ClosePool(pools, PoolName(op.id), op.existing.type)
  /\ OpStep(op, [op EXCEPT !.pc = "delete"])
  /\ UNCHANGED <<tables, publicPaths, sqlite_sequence, api_access_logs, api_call_stats, executed, clock,
                 reqs, probe>>

\* router.delete('/:id'): DELETE FROM datasources WHERE id = ?
DeleteRow(op) ==
  /\ op.pc = "delete"
  /\ datasources' = MapDelete(datasources, op.id)
  /\ OpStep(op, OpDone("delete", 200))
  /\ UNCHANGED <<apis, api_parameters, publicPaths, pools, sqlite_sequence, api_access_logs,
                 api_call_stats, executed, clock, reqs, probe>>

PoolNext ==
  \/ \E op \in AllOps : PostDatasource(op)
  \/ \E op \in AllOps : CreatePoolCall(op)
  \/ \E op \in AllOps : ConnectPool(op)
  \/ \E op \in AllOps : PutRead(op)
  \/ \E op \in AllOps : PutUpdate(op)
  \/ \E op \in AllOps : PutClose(op)
  \/ \E op \in AllOps : DeleteRead(op)
  \/ \E op \in AllOps : DeleteClose(op)
  \/ \E op \in AllOps : DeleteRow(op)

PoolSpec == PoolInit /\ [][PoolNext]_vars

\* ------------------------------------------- properties of the pool registry

\* The request that takes the step, as it was before the step.
Moves(op) == op \in AllOps /\ CopiesIn(op, ops') < CopiesIn(op, ops)

\* The step answers a request of this kind with this status.
Answers(kind, status) ==
  CopiesIn(OpDone(kind, status), ops') > CopiesIn(OpDone(kind, status), ops)

\* The entries of the registry that belong to a datasource: registered under its
\* pool name, or built from its row.
PoolsOf(id) ==
  {e \in UNION {{[type |-> type, name |-> name, pool |-> pools[type][name]] :
                   name \in DOMAIN pools[type]} : type \in Dialects} :
     e.name = PoolName(id) \/ e.pool.ds = id}

\* C15: a call of createPool for a pool name that is registered, under whatever
\* dialect, throws and leaves the registry as it was.
C15_DuplicateNameThrows ==
  [][\A op \in AllOps :
       (/\ Moves(op) /\ op.pc = "pool"
        /\ \E type \in Dialects : MapHas(pools[type], op.poolName))
         => pools' = pools /\ Answers(op.kind, 500)]_vars

\* C16: whenever no datasource request is in progress, each datasource has at
\* most one pool, and has one exactly when its row exists with status active.
C16_PoolIffActive ==
  (\A op \in AllOps : op.pc \in {"new", "done"}) =>
    \A id \in DatasourceIds :
      LET n == Cardinality(PoolsOf(id))
      IN /\ n <= 1
         /\ n = 1 <=> id \in DOMAIN datasources /\ datasources[id].status = "active"

\* C17: the step that completes an edit of type or connection fields leaves
\* exactly one pool for the datasource, the one built from the updated row.
C17_EditLeavesOnePool ==
  [][\A op \in AllOps :
       (/\ Moves(op) /\ op.kind = "update" /\ op.pc \in {"pool", "connect"}
        /\ Answers("update", 200))
         => PoolsOf(op.id)' =
              {[type |-> op.config.type, name |-> PoolName(op.id),
                pool |-> Pool(op.id, Updated(op))]}]_vars

\* C29: the step that answers 201 to the creation of datasource N leaves a pool
\* registered under ds_N, and the registration of a created datasource is never
\* refused as a duplicate.
C29_CreatedPoolUnderItsId ==
  [][\A op \in AllOps :
       (Moves(op) /\ op.kind = "create" /\ op.pc \in {"pool", "connect"}) =>
         /\ Answers("create", 201) => MapHas(pools'[op.config.type], PoolName(op.id))
         /\ op.pc = "pool" => ~Answers("create", 500)]_vars

\* ------------------------------------------------- the public paths over time

\* The endpoints the refresh is followed over.
PublicApis == SubSeq(InitialApis, 1, 4)

PathsInit ==
  /\ apis = PublicApis
  /\ datasources = InitialDatasources
  /\ api_parameters = InitialParameters
  /\ api_access_logs = EmptyBag
  /\ api_call_stats = <<>>
  /\ executed = EmptyBag
  /\ clock = 0
  /\ reqs = EmptyBag
  /\ pools = StartServer(InitialDatasources)
  /\ ops = EmptyBag
  /\ sqlite_sequence = 2
  /\ publicPaths = InitPublicPaths(apis)
  /\ probe = NoProbe

PathsUnchanged ==
  UNCHANGED <<datasources, api_parameters, api_access_logs, api_call_stats, executed, clock,
              reqs, registry, probe>>

\* setInterval(loadPublicPaths, 60000): one run of the refresh.
LoadPublicPaths ==
  /\ publicPaths' = LoadedPaths(publicPaths, apis)
  /\ UNCHANGED apis
  /\ PathsUnchanged

\* PUT /apis/:id with another status.
UpdateApiStatus(i, status) ==
  /\ apis[i].status # status
  /\ apis' = [apis EXCEPT ![i].status = status]
  /\ UNCHANGED publicPaths
  /\ PathsUnchanged

\* DELETE /apis/:id.
DeleteApi(i) ==
  /\ apis' = [j \in 1..(Len(apis) - 1) |-> IF j < i THEN apis[j] ELSE apis[j + 1]]
  /\ UNCHANGED publicPaths
  /\ PathsUnchanged

PathsNext ==
  \/ LoadPublicPaths
  \/ \E i \in DOMAIN apis, status \in Statuses : UpdateApiStatus(i, status)
  \/ \E i \in DOMAIN apis : DeleteApi(i)

PathsSpec == PathsInit /\ [][PathsNext]_vars

\* C18: when a refresh completes, the set of public paths is exactly the set of
\* paths of the endpoints published at that time: the path of an endpoint that was
\* unpublished or deleted since is gone from it.
C18_RefreshIsSnapshot ==
  [][LoadPublicPaths => publicPaths' = PublishedPaths(apis)]_vars

\* ------------------------------------------- the parameter extractor on its own

\* An SQL text is a sequence of characters.  \w of the regular expression, over
\* the characters the texts are written with.
IsWordChar(c) == c \in {"a", "b", "i", "d", "_"}

\* The length of the run of \w characters that starts at position i.
RECURSIVE WordRun(_, _)
WordRun(text, i) ==
  IF i <= Len(text) /\ IsWordChar(text[i]) THEN 1 + WordRun(text, i + 1) ELSE 0

\* /\{\{(\w+)\}\}/ tried at position i: the length of the match, 0 for no match.
MatchLength(text, i) ==
  IF i + 1 <= Len(text) /\ text[i] = "{" /\ text[i + 1] = "{"
    THEN LET n == WordRun(text, i + 2)
         IN IF /\ n > 0
               /\ i + 3 + n <= Len(text)
               /\ text[i + 2 + n] = "}"
               /\ text[i + 3 + n] = "}"
              THEN n + 4
              ELSE 0
    ELSE 0

\* regex.exec from lastIndex: the position of the leftmost match, 0 for null.
RECURSIVE Exec(_, _)
Exec(text, lastIndex) ==
  IF lastIndex > Len(text) THEN 0
  ELSE IF MatchLength(text, lastIndex) > 0 THEN lastIndex
  ELSE Exec(text, lastIndex + 1)

\* A membership test that looks at the last element only.
IncludesLast(matches, paramName) ==
  Len(matches) > 0 /\ matches[Len(matches)] = paramName

\* matches.includes(paramName).
Includes(matches, paramName) == \E k \in 1..Len(matches) : matches[k] = paramName

\* The while loop of extractParameters.
RECURSIVE ExecLoop(_, _, _)
ExecLoop(text, lastIndex, matches) ==
  LET at == Exec(text, lastIndex)
      paramName == SubSeq(text, at + 2, at + MatchLength(text, at) - 3)
  IN IF at = 0 THEN matches
     ELSE ExecLoop(text, at + MatchLength(text, at),
                   IF Includes(matches, paramName) THEN matches
                   ELSE Append(matches, paramName))

\* String.prototype.endsWith on character sequences.
EndsWith(name, suffix) ==
  Len(name) >= Len(suffix) /\ SubSeq(name, Len(name) - Len(suffix) + 1, Len(name)) = suffix

\* A column that holds no value (undefined in a fresh record, NULL in a row).
Undefined == "undefined"

\* The name lists of the inference, over the characters names are written with:
\* of commonPathParams only 'id' can be spelled, of commonQueryParams and
\* commonOptionalParams nothing, of the number patterns only /id$/ and /_id$/, of
\* the boolean and date patterns nothing, of the descriptions only that of 'id'.
\* Names are lower case, so toLowerCase leaves them as they are; no text spells
\* 'insert' or 'update'.
CommonPathParams == {<<"i", "d">>}

InferParamType(paramName, sqlTemplate) ==
  IF \E p \in CommonPathParams : paramName = p \/ EndsWith(paramName, <<"_">> \o p)
    THEN "path"
    ELSE "query"

InferDataType(paramName, sqlTemplate) ==
  IF EndsWith(paramName, <<"i", "d">>) \/ EndsWith(paramName, <<"_", "i", "d">>)
    THEN "number"
    ELSE "string"

InferRequired(paramName, sqlTemplate) == TRUE

\* The generated description: the one of the table, or `${paramName} parameter`.
GenerateDescription(paramName) ==
  IF paramName = <<"i", "d">> THEN <<"Record identifier">> ELSE paramName \o <<" parameter">>

\* inferParameter: the fresh record of a name.
InferParameter(paramName, sqlTemplate) ==
  [param_name |-> paramName,
   param_type |-> InferParamType(paramName, sqlTemplate),
   data_type |-> InferDataType(paramName, sqlTemplate),
   required |-> IF InferRequired(paramName, sqlTemplate) THEN 1 ELSE 0,
   default_value |-> Undefined,
   validation_rule |-> Undefined,
   description |-> GenerateDescription(paramName)]

ExtractParameters(sqlTemplate) ==
  IF sqlTemplate = <<>> THEN <<>>
  ELSE LET matches == ExecLoop(sqlTemplate, 1, <<>>)
       IN [k \in 1..Len(matches) |-> InferParameter(matches[k], sqlTemplate)]

\* existingMap = new Map(existingParameters.map(p => [p.param_name, p])): has and
\* get; a later row of a name replaces an earlier one.
ExistingMapHas(existingParameters, name) ==
  \E k \in 1..Len(existingParameters) : existingParameters[k].param_name = name

ExistingMapGet(existingParameters, name) ==
  LET rows == {k \in 1..Len(existingParameters) : existingParameters[k].param_name = name}
  IN existingParameters[CHOOSE k \in rows : \A l \in rows : l <= k]

\* a || b on descriptions: NULL and the empty text, both written <<>>, are falsy.
OrElse(a, b) == IF a = <<>> THEN b ELSE a

\* A merge that takes the stored description as it is.
MergeKeepingDescription(param, existing) ==
  [param EXCEPT !.param_type = existing.param_type, !.data_type = existing.data_type,
                !.required = existing.required, !.default_value = existing.default_value,
                !.validation_rule = existing.validation_rule,
                !.description = existing.description]

\* The object literal of lines 164-172.
Merge(param, existing) ==
  [param EXCEPT !.param_type = existing.param_type, !.data_type = existing.data_type,
                !.required = existing.required, !.default_value = existing.default_value,
                !.validation_rule = existing.validation_rule,
                !.description = OrElse(existing.description, param.description)]

ExtractParametersWithDefaults(sqlTemplate, existingParameters) ==
  LET extracted == ExtractParameters(sqlTemplate)
  IN [k \in 1..Len(extracted) |->
        IF ExistingMapHas(existingParameters, extracted[k].param_name)
          THEN Merge(extracted[k],
                     ExistingMapGet(existingParameters, extracted[k].param_name))
          ELSE extracted[k]]

\* The longest text, in pieces.
MaxPieces == 4

\* The pieces the texts are put together from.
Pieces ==
  { <<"{", "{", "a", "}", "}">>, <<"{", "{", "b", "}", "}">>, <<"{", "{">>, <<"}", "}">>,
    <<"{">>, <<"a">>, <<"-">> }

RECURSIVE TextsOf(_)
TextsOf(n) ==
  IF n = 0 THEN {<<>>}
  ELSE LET shorter == TextsOf(n - 1)
       IN shorter \cup {text \o piece : text \in shorter, piece \in Pieces}

ExtractInit ==
  /\ apis = InitialApis
  /\ datasources = InitialDatasources
  /\ api_parameters = InitialParameters
  /\ api_access_logs = EmptyBag
  /\ api_call_stats = <<>>
  /\ executed = EmptyBag
  /\ clock = 0
  /\ reqs = EmptyBag
  /\ pools = StartServer(InitialDatasources)
  /\ ops = EmptyBag
  /\ sqlite_sequence = 2
  /\ publicPaths = InitPublicPaths(apis)
  /\ \E text \in TextsOf(MaxPieces) :
       probe = [pc |-> "text", sql_template |-> text, parameters |-> <<>>]

\* POST /apis/extract-parameters on the text.
Extract ==
  /\ probe.pc = "text"
  /\ probe' = [probe EXCEPT !.pc = "extracted",
                            !.parameters = ExtractParameters(probe.sql_template)]
  /\ UNCHANGED <<tables, publicPaths, registry, api_access_logs, api_call_stats, executed, clock, reqs>>

ExtractNext == Extract

ExtractSpec == ExtractInit /\ [][ExtractNext]_vars

\* The text has the token {{name}} at position i.
TokenAt(text, name, i) ==
  /\ i >= 1
  /\ i + Len(name) + 3 <= Len(text)
  /\ SubSeq(text, i, i + Len(name) + 3) = <<"{", "{">> \o name \o <<"}", "}">>

\* The names of the tokens of the text: the non-empty words that stand between
\* '{{' and '}}' somewhere in it.
TokenNames(text) ==
  { name \in {SubSeq(text, i, j) : i \in 1..Len(text), j \in 1..Len(text)} :
      /\ name # <<>>
      /\ \A k \in 1..Len(name) : IsWordChar(name[k])
      /\ \E i \in 1..Len(text) : TokenAt(text, name, i) }

FirstOccurrence(text, name) == Min({i \in 1..Len(text) : TokenAt(text, name, i)})

\* C20: the extracted names are the names of the {{name}} tokens of the text, each
\* one once, in the order of their first occurrences in the text.
C20_DistinctInFirstOccurrenceOrder ==
  probe.pc = "extracted" =>
    LET text == probe.sql_template
        names == [k \in 1..Len(probe.parameters) |-> probe.parameters[k].param_name]
    IN /\ {names[k] : k \in 1..Len(names)} = TokenNames(text)
       /\ \A k, l \in 1..Len(names) :
            k < l => /\ names[k] # names[l]
                     /\ FirstOccurrence(text, names[k]) < FirstOccurrence(text, names[l])

\* A text with two names, the first of them again after the second, was extracted.
C20_Witness ==
  /\ probe.pc = "extracted"
  /\ Len(probe.parameters) = 2
  /\ LET text == probe.sql_template
         first == probe.parameters[1].param_name
         second == probe.parameters[2].param_name
     IN \E i \in 1..Len(text) :
          TokenAt(text, first, i) /\ i > FirstOccurrence(text, second)

\* ------------------------------------------------- the reconciliation on its own

\* The longest stored parameter list.
MaxStored == 2

Stored(name, type, dataType, required, default, rule, description) ==
  [param_name |-> name, param_type |-> type, data_type |-> dataType, required |-> required,
   default_value |-> default, validation_rule |-> rule, description |-> description]

\* Rows of api_parameters an endpoint can have: any name, with or without a
\* description; no constraint keeps the names of an endpoint apart.
StoredRows ==
  { Stored(<<"i", "d">>, "query", "string", 0, "1", "^[0-9]+$", <<"my id">>),
    Stored(<<"i", "d">>, "path", "number", 1, Undefined, Undefined, <<>>),
    Stored(<<"a">>, "body", "number", 0, "x", Undefined, <<"about a">>),
    Stored(<<"b", "b">>, "query", "string", 1, Undefined, Undefined, <<"gone">>) }

RECURSIVE StoredLists(_)
StoredLists(n) ==
  IF n = 0 THEN {<<>>}
  ELSE LET shorter == StoredLists(n - 1)
       IN shorter \cup {Append(rows, row) : rows \in shorter, row \in StoredRows}

ReconcilePieces ==
  { <<"{", "{", "i", "d", "}", "}">>, <<"{", "{", "a", "}", "}">>,
    <<"{", "{", "a", "_", "i", "d", "}", "}">>, <<"-">> }

\* The texts of one and of two pieces.
ReconcileTexts ==
  ReconcilePieces \cup {one \o two : one \in ReconcilePieces, two \in ReconcilePieces}

ReconcileInit ==
  /\ apis = InitialApis
  /\ datasources = InitialDatasources
  /\ api_parameters = InitialParameters
  /\ api_access_logs = EmptyBag
  /\ api_call_stats = <<>>
  /\ executed = EmptyBag
  /\ clock = 0
  /\ reqs = EmptyBag
  /\ pools = StartServer(InitialDatasources)
  /\ ops = EmptyBag
  /\ sqlite_sequence = 2
  /\ publicPaths = InitPublicPaths(apis)
  /\ \E text \in ReconcileTexts, stored \in StoredLists(MaxStored) :
       probe = [pc |-> "text", sql_template |-> text, existingParameters |-> stored,
                parametersToSave |-> <<>>]

\* PUT /apis/:id without a parameter list, lines 193-203.
Reconcile ==
  /\ probe.pc = "text"
  /\ probe' = [probe EXCEPT !.pc = "reconciled",
                            !.parametersToSave =
                               ExtractParametersWithDefaults(probe.sql_template,
                                                             probe.existingParameters)]
  /\ UNCHANGED <<tables, publicPaths, registry, api_access_logs, api_call_stats, executed, clock, reqs>>

ReconcileNext == Reconcile

ReconcileSpec == ReconcileInit /\ [][ReconcileNext]_vars

\* The result has one parameter per extracted name, in the order of extraction.
OnePerExtractedName ==
  LET extracted == ExtractParameters(probe.sql_template)
  IN /\ Len(probe.parametersToSave) = Len(extracted)
     /\ \A k \in 1..Len(extracted) :
          probe.parametersToSave[k].param_name = extracted[k].param_name

\* The parameter is the fresh inference of its name.
IsFresh(param) == param = InferParameter(param.param_name, probe.sql_template)

\* C21 as stated: one parameter per extracted name; for a name that is stored the
\* parameter is a stored row of that name, description included; a name only in
\* the text has its fresh inference; a stored name not in the text is absent.
C21_ReconcileKeepsStored ==
  probe.pc = "reconciled" =>
    /\ OnePerExtractedName
    /\ \A k \in 1..Len(probe.parametersToSave) :
         LET param == probe.parametersToSave[k]
         IN IF ExistingMapHas(probe.existingParameters, param.param_name)
              THEN \E l \in 1..Len(probe.existingParameters) :
                     param = probe.existingParameters[l]
              ELSE IsFresh(param)

\* C21: one parameter per extracted name; for a name that is stored the parameter
\* has the location, data type, required flag, default and validation rule of the
\* last stored row of that name, and its description unless that is empty, when
\* it has the generated description; a name only in the text has its fresh
\* inference; a stored name not in the text is absent.
C21_ReconcileKeepsStoredButEmptyDescription ==
  probe.pc = "reconciled" =>
    /\ OnePerExtractedName
    /\ \A k \in 1..Len(probe.parametersToSave) :
         LET param == probe.parametersToSave[k]
             rows == {l \in 1..Len(probe.existingParameters) :
                        probe.existingParameters[l].param_name = param.param_name}
         IN IF rows # {}
              THEN LET row == probe.existingParameters[Max(rows)]
                   IN param =
                        [row EXCEPT !.description =
                           IF row.description = <<>>
                             THEN GenerateDescription(param.param_name)
                             ELSE row.description]
              ELSE IsFresh(param)

\* A text with a stored name whose row has no description, a stored name with
\* one, and a stored row whose name the text does not hold, was reconciled.
C21_Witness ==
  /\ probe.pc = "reconciled"
  /\ Len(probe.parametersToSave) = 2
  /\ \E k \in 1..2 : /\ ExistingMapHas(probe.existingParameters,
                                        probe.parametersToSave[k].param_name)
                     /\ probe.parametersToSave[k].description = <<"Record identifier">>
                     /\ probe.parametersToSave[k].param_type = "path"
  /\ \E k \in 1..2 : IsFresh(probe.parametersToSave[k])
                     /\ ~ExistingMapHas(probe.existingParameters,
                                        probe.parametersToSave[k].param_name)
  /\ \E l \in 1..Len(probe.existingParameters) :
       probe.existingParameters[l].param_name = <<"b", "b">>

\* ----------------------------------------------------- the endpoint generator

\* The most columns of a table schema.
MaxColumns == 3

\* ColumnInfo (maxLength is read by generateValidationRules only).
Column(name, type, nullable, isPrimaryKey, isAutoIncrement, defaultValue) ==
  [name |-> name, type |-> type, nullable |-> nullable, isPrimaryKey |-> isPrimaryKey,
   isAutoIncrement |-> isAutoIncrement, defaultValue |-> defaultValue]

ColumnInfos ==
  { Column("id", "int", FALSE, TRUE, TRUE, Undefined),
    Column("code", "varchar", FALSE, TRUE, FALSE, Undefined),
    Column("name", "varchar", FALSE, FALSE, FALSE, Undefined),
    Column("note", "text", TRUE, FALSE, FALSE, "none"),
    Column("qty", "int", TRUE, FALSE, FALSE, "0") }

\* The column lists of at most n columns, no column name twice.
RECURSIVE ColumnLists(_)
ColumnLists(n) ==
  IF n = 0 THEN {<<>>}
  ELSE LET shorter == ColumnLists(n - 1)
       IN shorter \cup {Append(cols, col) : cols \in shorter,
                          col \in ColumnInfos}

NoRepeatedColumn(cols) == \A i, j \in 1..Len(cols) : cols[i].name = cols[j].name => i = j

\* TableInfo: the schemas the introspector can return.
TableInfos ==
  {[name |-> "t", columns |-> cols] : cols \in {c \in ColumnLists(MaxColumns) :
                                                  c # <<>> /\ NoRepeatedColumn(c)}}

\* mapColumnTypeToJoi, on the column types of the schemas.
MapColumnTypeToJoi(columnType) ==
  CASE columnType \in {"int", "bigint", "serial", "decimal", "float"} -> "number"
    [] columnType \in {"bool", "boolean"} -> "boolean"
    [] columnType \in {"date", "datetime", "timestamp"} -> "date"
    [] columnType \in {"char", "varchar", "text"} -> "string"
    [] columnType \in {"json", "blob"} -> "object"
    [] OTHER -> "string"

\* A search that takes the first column for the key.
FindFirstColumn(columns) == IF columns = <<>> THEN 0 ELSE 1

\* columns.find(col => col.isPrimaryKey): the first one; its position, 0 for none.
FindPrimaryKey(columns) ==
  LET keys == {i \in 1..Len(columns) : columns[i].isPrimaryKey}
  IN IF keys = {} THEN 0 ELSE Min(keys)

\* items.map(piece).join(separator) as SQL text.
RECURSIVE Join(_, _, _)
Join(items, piece(_), separator) ==
  IF items = <<>> THEN <<>>
  ELSE IF Len(items) = 1 THEN piece(items[1])
  ELSE piece(items[1]) \o <<Text(separator)>> \o Join(Tail(items), piece, separator)

ColumnName(col) == <<Text(col.name)>>

\* GeneratedParameter (the description is not modelled).
GeneratedParameter(name, type, dataType, required, default) ==
  [param_name |-> name, param_type |-> type, data_type |-> dataType, required |-> required,
   default_value |-> default]

\* GeneratedAPI (name, description and validation_rules are not modelled).
GeneratedAPI(path, method, sql, parameters) ==
  [path |-> path, method |-> method, sql_template |-> sql, parameters |-> parameters]

\* The value of a draft that was not generated.
NoDraft == GeneratedAPI(<<>>, "undefined", <<>>, <<>>)

LimitParameter == GeneratedParameter("limit", "query", "number", 0, "100")

OffsetParameter == GeneratedParameter("offset", "query", "number", 0, "0")

GenerateGetAPI(path, tableName, columns) ==
  LET pk == FindPrimaryKey(columns)
      select == <<Text("SELECT ")>> \o Join(columns, ColumnName, ", ")
                  \o <<Text(" FROM "), Text(tableName)>>
  IN IF pk # 0
       THEN GeneratedAPI(Append(path, ":id"), "GET",
              select \o <<Text(" WHERE "), Text(columns[pk].name), Text(" = "), Ph("id")>>,
              <<GeneratedParameter("id", "path", MapColumnTypeToJoi(columns[pk].type), 1,
                                   Undefined)>>)
       ELSE GeneratedAPI(path, "GET", select, <<LimitParameter, OffsetParameter>>)

ColumnPlaceholder(col) == <<Ph(col.name)>>

GeneratePostAPI(path, tableName, columns) ==
  LET insertColumns == SelectSeq(columns, LAMBDA col : ~col.isAutoIncrement)
  IN GeneratedAPI(path, "POST",
       <<Text("INSERT INTO "), Text(tableName), Text(" (")>>
         \o Join(insertColumns, ColumnName, ", ") \o <<Text(") VALUES (")>>
         \o Join(insertColumns, ColumnPlaceholder, ", ") \o <<Text(")")>>,
       [i \in 1..Len(insertColumns) |->
          GeneratedParameter(insertColumns[i].name, "body",
                             MapColumnTypeToJoi(insertColumns[i].type),
                             IF insertColumns[i].nullable THEN 0 ELSE 1,
                             insertColumns[i].defaultValue)])

ColumnAssignment(col) == <<Text(col.name), Text(" = "), Ph(col.name)>>

GeneratePutAPI(path, tableName, columns, pk) ==
  IF pk = 0 THEN NoDraft
  ELSE LET updateColumns ==
             SelectSeq(columns, LAMBDA col : ~col.isPrimaryKey /\ ~col.isAutoIncrement)
       IN GeneratedAPI(Append(path, ":id"), "PUT",
            <<Text("UPDATE "), Text(tableName), Text(" SET ")>>
              \o Join(updateColumns, ColumnAssignment, ", ")
              \o <<Text(" WHERE "), Text(columns[pk].name), Text(" = "),
                   Ph(columns[pk].name)>>,
            <<GeneratedParameter(columns[pk].name, "path",
                                 MapColumnTypeToJoi(columns[pk].type), 1, Undefined)>>
              \o [i \in 1..Len(updateColumns) |->
                    GeneratedParameter(updateColumns[i].name, "body",
                                       MapColumnTypeToJoi(updateColumns[i].type), 0,
                                       updateColumns[i].defaultValue)])

GenerateDeleteAPI(path, tableName, columns, pk) ==
  IF pk = 0 THEN NoDraft
  ELSE GeneratedAPI(Append(path, ":id"), "DELETE",
         <<Text("DELETE FROM "), Text(tableName), Text(" WHERE "), Text(columns[pk].name),
           Text(" = "), Ph(columns[pk].name)>>,
         <<GeneratedParameter(columns[pk].name, "path",
                              MapColumnTypeToJoi(columns[pk].type), 1, Undefined)>>)

GenerateBulkGetAPI(path, tableName, columns) ==
  LET pk == FindPrimaryKey(columns)
  IN GeneratedAPI(path, "GET",
       <<Text("SELECT ")>> \o Join(columns, ColumnName, ", ")
         \o <<Text(" FROM "), Text(tableName), Text(" ORDER BY "), Ph("order_by"), Text(" "),
              Ph("order"), Text(" LIMIT "), Ph("limit"), Text(" OFFSET "), Ph("offset")>>,
       <<LimitParameter, OffsetParameter,
         GeneratedParameter("order_by", "query", "string", 0,
                            IF pk # 0 THEN columns[pk].name ELSE "id"),
         GeneratedParameter("order", "query", "string", 0, "ASC")>>)

ColumnLike(col) == <<Text(col.name), Text(" LIKE "), Ph("search")>>

GenerateSearchAPI(path, tableName, columns) ==
  LET searchableColumns ==
        SelectSeq(columns, LAMBDA col : col.type \in {"char", "varchar", "text"})
  IN GeneratedAPI(Append(path, "search"), "GET",
       <<Text("SELECT ")>> \o Join(columns, ColumnName, ", ")
         \o <<Text(" FROM "), Text(tableName), Text(" WHERE ")>>
         \o Join(searchableColumns, ColumnLike, " OR ")
         \o <<Text(" LIMIT "), Ph("limit")>>,
       <<GeneratedParameter("search", "query", "string", 1, Undefined), LimitParameter>>)

GenerateCountAPI(path, tableName) ==
  GeneratedAPI(Append(path, "count"), "GET",
               <<Text("SELECT COUNT(*) as total FROM "), Text(tableName)>>, <<>>)

\* `/api/${formatTableNameToPath(tableName)}`, for the lower-case table names.
DefaultPath(tableName) == <<"api", tableName>>

GenerateAPIsFromTable(tableInfo) ==
  LET path == DefaultPath(tableInfo.name)
      primaryKey == FindPrimaryKey(tableInfo.columns)
  IN [get |-> GenerateGetAPI(path, tableInfo.name, tableInfo.columns),
      post |-> GeneratePostAPI(path, tableInfo.name, tableInfo.columns),
      put |-> GeneratePutAPI(path, tableInfo.name, tableInfo.columns, primaryKey),
      delete |-> GenerateDeleteAPI(path, tableInfo.name, tableInfo.columns, primaryKey)]

\* if (api) apis.push(api).
PushIfDefined(apis_, api) == IF api # NoDraft THEN Append(apis_, api) ELSE apis_

GenerateFullCRUDAPIs(tableInfo) ==
  LET basicAPIs == GenerateAPIsFromTable(tableInfo)
      path == DefaultPath(tableInfo.name)
  IN PushIfDefined(PushIfDefined(PushIfDefined(<<basicAPIs.get>>, basicAPIs.post),
                                 basicAPIs.put), basicAPIs.delete)
       \o << GenerateBulkGetAPI(path, tableInfo.name, tableInfo.columns),
             GenerateSearchAPI(path, tableInfo.name, tableInfo.columns),
             GenerateCountAPI(path, tableInfo.name) >>

GenerateInit ==
  /\ apis = InitialApis
  /\ datasources = InitialDatasources
  /\ api_parameters = InitialParameters
  /\ api_access_logs = EmptyBag
  /\ api_call_stats = <<>>
  /\ executed = EmptyBag
  /\ clock = 0
  /\ reqs = EmptyBag
  /\ pools = StartServer(InitialDatasources)
  /\ ops = EmptyBag
  /\ sqlite_sequence = 2
  /\ publicPaths = InitPublicPaths(apis)
  /\ \E schema \in TableInfos :
       probe = [pc |-> "schema", schema |-> schema, generatedAPIs |-> <<>>]

\* POST /generate up to line 91: the drafts of the schema.
Generate ==
  /\ probe.pc = "schema"
  /\ probe' = [probe EXCEPT !.pc = "generated",
                            !.generatedAPIs = GenerateFullCRUDAPIs(probe.schema)]
  /\ UNCHANGED <<tables, publicPaths, registry, api_access_logs, api_call_stats, executed, clock, reqs>>

GenerateNext == Generate

GenerateSpec == GenerateInit /\ [][GenerateNext]_vars

HasPrimaryKey(schema) == \E i \in 1..Len(schema.columns) : schema.columns[i].isPrimaryKey

DraftsOf(method) ==
  {i \in 1..Len(probe.generatedAPIs) : probe.generatedAPIs[i].method = method}

\* C22: for a schema without a primary-key column there is no update draft and no
\* delete draft, and the read draft (the first draft) is a list over the table: on
\* the base path, with no path parameter and no key condition in its SQL.
C22_NoKeyNoUpdateNoDelete ==
  (probe.pc = "generated" /\ ~HasPrimaryKey(probe.schema)) =>
    /\ DraftsOf("PUT") = {}
    /\ DraftsOf("DELETE") = {}
    /\ LET read == probe.generatedAPIs[1]
       IN /\ read.method = "GET"
          /\ read.path = DefaultPath(probe.schema.name)
          /\ \A i \in 1..Len(read.parameters) : read.parameters[i].param_type # "path"
          /\ \A i \in 1..Len(read.sql_template) :
               read.sql_template[i].t = "text" /\ read.sql_template[i].v # " WHERE "

\* The drafts of a schema of two columns without a primary key were generated.
C22_Witness ==
  /\ probe.pc = "generated"
  /\ ~HasPrimaryKey(probe.schema)
  /\ Len(probe.schema.columns) = 2
  /\ Len(probe.generatedAPIs) = 5

\* C25: the drafts generated for a schema have pairwise distinct (path, verb) pairs.
C25_DistinctPathAndVerb ==
  probe.pc = "generated" =>
    \A i, j \in 1..Len(probe.generatedAPIs) :
      ( /\ probe.generatedAPIs[i].path = probe.generatedAPIs[j].path
        /\ probe.generatedAPIs[i].method = probe.generatedAPIs[j].method ) => i = j

\* C26: in every generated draft the parameter names are the names of the {{name}}
\* tokens of its SQL text, and every path parameter has its ':name' piece in the
\* draft's path.
C26_ParametersMatchTokensAndPath ==
  probe.pc = "generated" =>
    \A d \in 1..Len(probe.generatedAPIs) :
      LET draft == probe.generatedAPIs[d]
          names == {draft.parameters[i].param_name : i \in 1..Len(draft.parameters)}
          tokens == {draft.sql_template[i].v :
                       i \in {j \in 1..Len(draft.sql_template) :
                                draft.sql_template[j].t = "ph"}}
      IN /\ names = tokens
         /\ \A i \in 1..Len(draft.parameters) :
              draft.parameters[i].param_type = "path" =>
                \E s \in 1..Len(draft.path) :
                  /\ StartsWithColon(draft.path[s])
                  /\ Substring1(draft.path[s]) = draft.parameters[i].param_name

\* ------------------------------------- endpoints with drifted and optional parameters

SqlList ==
  <<Text("SELECT"), Text(" * FROM orders"), Text(" LIMIT "), Ph("limit"), Text(" OFFSET "),
    Ph("offset")>>

\* An endpoint table with an endpoint that was stored without a parameter list,
\* its SQL text holding {{name}}, and a generated listing.
ListApis ==
  << Api(1, <<"users">>, "GET", "published", 0, 1, SqlByName),
     Api(2, <<"orders">>, "GET", "published", 0, 1, SqlList),
     Api(3, <<"users">>, "POST", "published", 0, 1, SqlInsert) >>

\* A row of api_parameters with its default_value column.
ParamWithDefault(name, ptype, dtype, required, default) ==
  [param_name |-> name, param_type |-> ptype, data_type |-> dtype, required |-> required,
   default_value |-> default]

ListParameters ==
  [a \in 1..3 |->
     CASE a = 2 -> <<ParamWithDefault("limit", "query", "number", 0, "100"),
                     ParamWithDefault("offset", "query", "number", 0, "0")>>
       [] a = 3 -> <<ParamWithDefault("name", "body", "string", 1, Undefined)>>
       [] OTHER -> <<>>]

ListInit ==
  /\ apis = ListApis
  /\ datasources = InitialDatasources
  /\ api_parameters = ListParameters
  /\ api_access_logs = EmptyBag
  /\ api_call_stats = <<>>
  /\ executed = EmptyBag
  /\ clock = 0
  /\ reqs = [req \in {NewRequest} |-> MaxRequests]
  /\ pools = StartServer(InitialDatasources)
  /\ ops = EmptyBag
  /\ sqlite_sequence = 2
  /\ publicPaths = InitPublicPaths(apis)
  /\ probe = NoProbe

ListSpec == ListInit /\ [][Next]_vars

\* C23: no SQL text handed to the pool registry holds a {{name}} token.
C23_NoUnresolvedTokenDispatched ==
  \A call \in BagToSet(executed) : \A i \in 1..Len(call.sql) : call.sql[i].t # "ph"

\* C24: when a request that omits an optional parameter with a stored default is
\* rendered, the sanitized bag holds the parameter with the default as its value
\* and the SQL holds no {{name}} token of it.
C24_DefaultsReachRendering ==
  \A req \in AllRequests :
    req.pc = "execute" =>
      LET parameters == GetAPIParameters(req.api.id)
      IN \A i \in 1..Len(parameters) :
           ( /\ parameters[i].required = 0
             /\ "default_value" \in DOMAIN parameters[i]
             /\ parameters[i].default_value # Undefined
             /\ ~ObjHas(req.allParams, parameters[i].param_name) ) =>
             /\ ObjHas(req.sanitizedParams, parameters[i].param_name)
             /\ ObjGet(req.sanitizedParams, parameters[i].param_name)
                  = parameters[i].default_value
             /\ ~SqlIncludes(req.sql, parameters[i].param_name)

\* ------------------------------------------- requests while an endpoint is edited

\* The endpoint that is edited: POST /users, parameters name and email.
EditedApi == 6

\* The parameter lists PUT /apis/:id can carry for it: the stored list again, or
\* the list without email.
EditParameterLists ==
  { InitialParameters[EditedApi], <<Param("name", "body", "string", 1)>> }

\* A request to PUT /apis/:id: its position in the handler, the list it saves and
\* the number of rows it has inserted.
EditOp == [pc |-> "new", kind |-> "editapi", id |-> EditedApi, parametersToSave |-> <<>>,
           saved |-> 0]

EditInit ==
  /\ apis = InitialApis
  /\ datasources = InitialDatasources
  /\ api_parameters = InitialParameters
  /\ api_access_logs = EmptyBag
  /\ api_call_stats = <<>>
  /\ executed = EmptyBag
  /\ clock = 0
  /\ reqs = [req \in {NewRequest} |-> MaxRequests]
  /\ pools = StartServer(InitialDatasources)
  /\ ops = One(EditOp)
  /\ sqlite_sequence = 2
  /\ publicPaths = InitPublicPaths(apis)
  /\ probe = NoProbe

EditUnchanged ==
  UNCHANGED <<apis, datasources, publicPaths, pools, sqlite_sequence, api_access_logs,
              api_call_stats, executed, clock, reqs, probe>>

\* Lines 179-203: UPDATE apis with the values the row has, then the list to save.
PutApi(op) ==
  /\ op.pc = "new"
  /\ \E parameters \in EditParameterLists :
       ops' = (ops (-) One(op)) (+) One([op EXCEPT !.pc = "delete",
                                                   !.parametersToSave = parameters])
  /\ UNCHANGED api_parameters
  /\ EditUnchanged

\* Line 205: DELETE FROM api_parameters WHERE api_id = ?.
PutApiDelete(op) ==
  /\ op.pc = "delete"
  /\ api_parameters' = [api_parameters EXCEPT ![op.id] = <<>>]
  /\ ops' = (ops (-) One(op)) (+)
              One([op EXCEPT !.pc = IF op.parametersToSave = <<>> THEN "done" ELSE "insert"])
  /\ EditUnchanged

\* Lines 207-214: one INSERT INTO api_parameters per parameter, each awaited.
PutApiInsert(op) ==
  /\ op.pc = "insert"
  /\ api_parameters' =
       [api_parameters EXCEPT ![op.id] = Append(@, op.parametersToSave[op.saved + 1])]
  /\ ops' = (ops (-) One(op)) (+)
              One([op EXCEPT !.saved = @ + 1,
                             !.pc = IF op.saved + 1 = Len(op.parametersToSave)
                                      THEN "done" ELSE "insert"])
  /\ EditUnchanged

EditNext ==
  \/ \E req \in AllRequests : OptionalApiTokenAuth(req)
  \/ \E req \in AllRequests : Route(req)
  \/ \E req \in AllRequests : Validate(req)
  \/ \E req \in AllRequests : Execute(req)
  \/ \E req \in AllRequests : Catch(req)
  \/ \E req \in AllRequests : UpsertStats(req)
  \/ AdvanceDay
  \/ \E op \in BagToSet(ops) : PutApi(op)
  \/ \E op \in BagToSet(ops) : PutApiDelete(op)
  \/ \E op \in BagToSet(ops) : PutApiInsert(op)

EditSpec == EditInit /\ [][EditNext]_vars

\* The required names of a parameter list that the bag does not hold.
MissingFrom(parameters, bag) ==
  {parameters[i].param_name :
     i \in {j \in 1..Len(parameters) :
              parameters[j].required = 1 /\ parameters[j].param_name \notin ObjKeys(bag)}}

\* C28: a request to the edited endpoint whose SQL was handed to the pool registry
\* holds every required parameter of the complete old list or of a complete new
\* list of the endpoint.
C28_ValidatedAgainstCompleteList ==
  \A req \in AllRequests :
    (req.dispatches > 0 /\ req.api.id = EditedApi) =>
      \E parameters \in EditParameterLists : MissingFrom(parameters, req.allParams) = {}

====
